---- MODULE Spec2Model ----
(***************************************************************************)
(* The caching gateway of git-karaoke-api: GithubService.#cachedApiCall    *)
(* and SunoService.#cachedApiCall over the ApiCall and ApiLimit tables.    *)
(* Every await of the JavaScript code (a Prisma call, the axios request)   *)
(* is a suspension point, so one call is a process that moves through      *)
(* lookup -> http -> store -> limit -> done, or into the catch block, and  *)
(* the calls of different requests interleave at those points.             *)
(*                                                                         *)
(* Time is counted in hours.  MD5 is taken to be collision free: a request *)
(* hash is represented by the string that is digested.  A Prisma upsert is *)
(* one atomic write.  Under SpecFaulty an upsert may throw; findUnique is  *)
(* taken to answer.                                                        *)
(*                                                                         *)
(* The second part is the life of a Song: step 11 onwards of               *)
(* KaraokeService.generateSongFromRepo, the audio and lyrics callbacks     *)
(* (handleSunoCallback, handleSunoCallbackLyrics) and the polls            *)
(* (checkSongStatus, waitForSongCompletion) over the tables Song,          *)
(* AudioFile, Attachment and Repository and a music service that moves a   *)
(* task from PENDING to an end status.  There a call through the gateway   *)
(* is taken in one step: its interleavings are those of the first half.    *)
(*                                                                         *)
(* The third part is the pipeline before step 11: AIService.adjustContent  *)
(* and KaraokeService.chunkTextByTokens, where a text is represented by    *)
(* its characters or by its length, and steps 2 to 10 of                   *)
(* generateSongFromRepo with the embedding collection they fill.           *)
(*                                                                         *)
(* The last part is the commit side: getAllCommitsInDateRange with its     *)
(* pages and aggregate row, formatCommitsForAnalysis with getCommitDetails *)
(* and getCommitDiff over the tables Commit and AnalysisTask,              *)
(* getCommitsByLastActivity, and the checks the service methods make of    *)
(* their parameters before their first await.                              *)
(***************************************************************************)
EXTENDS Integers, Sequences, FiniteSets, TLC

VARIABLES
    apiCalls,    \* the rows of table api_calls (model ApiCall)
    apiLimits,   \* service -> row of table api_limits (model ApiLimit), or NoLimit
    now,         \* the clock, in hours
    dbFaulty,    \* whether Prisma writes may throw in this behaviour
    pc,          \* where each call stands
    req,         \* the arguments of each call
    requestHash, \* the local requestHash of each call
    outcome,     \* the answer the call's live request got
    error,       \* the error caught by the call's catch block
    result,      \* what the call returned or threw to its caller
    seen,        \* what the call's cache lookup found
    liveOk,      \* service -> number of live requests that succeeded
    calls,       \* number of calls begun
    songs,       \* the rows of table songs (model Song)
    audioFiles,  \* the rows of table audio_files (model AudioFile)
    attachments, \* the rows of table attachments written by UploadService
    repositories,\* the rows of table repositories (model Repository)
    upstream,    \* task id -> status of the task at the music service
    handler,     \* the callback being handled by each request handler
    submit,      \* generateSongFromRepo from its step 11
    waiter,      \* checkSongStatus or waitForSongCompletion
    adjust,      \* a call of AIService.adjustContent
    chunker,     \* a call of KaraokeService.chunkTextByTokens
    run,         \* generateSongFromRepo up to its step 10
    collection,  \* the documents of the embedding collection
    twin,        \* the two waits for a task, run on the same poll results
    pager,       \* a call of GithubService.getAllCommitsInDateRange
    formatter,   \* a call of GithubService.formatCommitsForAnalysis
    analysisTasks, \* the rows of table analysis_tasks (model AnalysisTask)
    commitTable, \* the rows of table commits (model Commit) with their files
    checked      \* a call of a service method, with the parameters it was given

vars == <<apiCalls, apiLimits, now, dbFaulty, pc, req, requestHash, outcome, error,
          result, seen, liveOk, calls, songs, audioFiles, attachments, repositories,
          upstream, handler, submit, waiter, adjust, chunker, run, collection, twin,
          pager, formatter, analysisTasks, commitTable, checked>>

songVars == <<songs, audioFiles, attachments, repositories, upstream, handler, submit,
              waiter>>

gatewayLocals == <<dbFaulty, pc, req, requestHash, outcome, error, result, seen>>

afterFormatter == <<checked>>

afterPager == <<formatter, analysisTasks, commitTable, afterFormatter>>

afterTwin == <<pager, afterPager>>

laterVars == <<twin, afterTwin>>

pipelineVars == <<adjust, chunker, run, collection, laterVars>>

-----------------------------------------------------------------------------
(* Bounds of the model *)

MaxCalls == 3

MaxNow == 24

TickHours == 24

Procs == {"p1", "p2"}

Services == {"github", "suno"}

Methods == {"GET", "POST"}

Payloads == {"d1", "d2"}

(* Program constants *)

DEFAULT_CACHE_HOURS == 24

HOUR == 1

Null == "null"

NullDate == -1

None == "none"

-----------------------------------------------------------------------------
(* Values *)

NoRow == [id |-> 0]

NoLimit == [id |-> 0]

NoReq == [service |-> None]

NoHash == <<>>

NoOutcome == [ok |-> FALSE, status |-> 0, data |-> Null, message |-> <<>>]

NoError == [message |-> <<>>, status |-> 0, data |-> Null]

NoResult == [kind |-> None, data |-> Null, message |-> <<>>]

\* A parameter object is the sequence of its <<key, value>> pairs in
\* insertion order.
SunoRequestData == <<<<"prompt", "a song">>, <<"callBackUrl", "cb">>>>

\* The objects a caller may hand to the hash: the same two pairs inserted
\* in either order, one pair alone, and the empty object.
ParamObjects ==
    { <<>>,
      <<<<"since", "s1">>>>,
      <<<<"since", "s1">>, <<"until", "u1">>>>,
      <<<<"until", "u1">>, <<"since", "s1">>>> }

CacheHoursOptions == {0, DEFAULT_CACHE_HOURS}

SinceOptions == {"s1"}

RepeatedSinceOptions == {Null, "s1", "s2"}

\* What the upstream service answers to a live request: a 2xx response with
\* a body, a non-2xx response with a body, or no response at all.
HttpOutcomes ==
    { [ok |-> TRUE, status |-> 200, data |-> d, message |-> <<>>] : d \in Payloads }
    \cup
    { [ok |-> FALSE, status |-> 404, data |-> "not found",
       message |-> <<"Request failed with status code 404">>],
      [ok |-> FALSE, status |-> 0, data |-> Null,
       message |-> <<"Network Error">>] }

\* The error a Prisma call throws: it has a message and no response.
DbError == [message |-> <<"PrismaClientKnownRequestError">>, status |-> 0, data |-> Null]

DbOutcomes == IF dbFaulty THEN {TRUE, FALSE} ELSE {TRUE}

-----------------------------------------------------------------------------
(* Values of the life of a Song *)

TaskIdSeq == <<"T1", "T2">>

TaskIds == {TaskIdSeq[i] : i \in DOMAIN TaskIdSeq}

Handlers == {"h1"}

NoSong == [id |-> 0]

\* What stands for a data.data that is not an array.
NoTracks == <<[id |-> Null, audio_url |-> "not an array"]>>

Track1 == [id |-> "a1", audio_url |-> "u1"]

Track2 == [id |-> "a2", audio_url |-> "u2"]

TrackNoUrl == [id |-> "a3", audio_url |-> Null]

\* callbackData.data.data: not an array, or the tracks.
TrackLists == {NoTracks, <<Track1, Track2>>, <<TrackNoUrl, Track1>>}

CallbackTypes == {"complete", "first", "error"}

NoCallback ==
    [hasData |-> FALSE, task_id |-> Null, callbackType |-> "", tracks |-> NoTracks,
     lyrics |-> Null]

\* The bodies that may be posted to /karaoke/callback.
AudioCallbacks ==
    {NoCallback} \cup
    [hasData : {TRUE}, task_id : TaskIds, callbackType : CallbackTypes,
     tracks : TrackLists, lyrics : {Null}]

\* The bodies that may be posted to /karaoke/callback/lyrics.
LyricsCallbacks ==
    {NoCallback} \cup
    [hasData : {TRUE}, task_id : TaskIds, callbackType : {"lyrics"},
     tracks : {NoTracks}, lyrics : {Null, "l2"}]

\* The statuses of a task at the music service, word by word.
StatusWords ==
    [PENDING |-> <<"PENDING">>,
     SUCCESS |-> <<"SUCCESS">>,
     GENERATE_AUDIO_FAILED |-> <<"GENERATE", "AUDIO", "FAILED">>,
     SENSITIVE_WORD_ERROR |-> <<"SENSITIVE", "WORD", "ERROR">>,
     UNKNOWN |-> <<"UNKNOWN">>]

EndStatuses == {"SUCCESS", "GENERATE_AUDIO_FAILED", "SENSITIVE_WORD_ERROR"}

MaxAttemptsOptions == {2, 4}

\* maxAttempts at and near its least values.
FewAttemptsOptions == {0, 1, 2}

UploadOutcomes == {TRUE, FALSE}

NoHandlerResult ==
    [kind |-> None, taskId |-> Null, callbackType |-> "", doAttachments |-> <<>>,
     message |-> <<>>]

NoHandler ==
    [pc |-> "idle", kind |-> None, cb |-> NoCallback, savedFiles |-> <<>>,
     songRecord |-> NoSong, i |-> 0, result |-> NoHandlerResult]

NoSubmitResult == [kind |-> None, taskId |-> Null, message |-> <<>>]

NoSubmit ==
    [pc |-> "idle", instrumental |-> FALSE, sunoTaskId |-> Null,
     result |-> NoSubmitResult]

NoWaitResult == [kind |-> None, songStatus |-> Null, details |-> <<>>, message |-> <<>>]

NoWaiter ==
    [pc |-> "idle", via |-> None, taskId |-> Null, attempts |-> 0, maxAttempts |-> 0,
     result |-> NoWaitResult]

\* The state of the pipeline while no call of it is in progress.
\* adjust.given are the arguments of the call; adjust.kept tells which
\* characters of the given system and prompt, from the first index up to the
\* second, and how many of the given history entries, are still held.
NoGiven == [system |-> 0, history |-> <<>>, prompt |-> 0]

NoKept == [system |-> <<0, 0>>, prompt |-> <<0, 0>>, shifted |-> 0]

NoAdjust ==
    [pc |-> "idle", system |-> 0, history |-> <<>>, prompt |-> 0, contextWindow |-> 0,
     currentTokens |-> 0, iteration |-> 0, trimmed |-> None,
     given |-> NoGiven, kept |-> NoKept]

NoChunker == [pc |-> "idle", text |-> <<>>, maxTokens |-> 0, startIndex |-> 0,
              chunks |-> <<>>, calls |-> 0, previous |-> <<>>]

NoRunResult == [kind |-> None, message |-> <<>>]

\* run.found is commits.length, -1 as long as no fetch has returned.
NoRun ==
    [pc |-> "idle", instrumental |-> FALSE, found |-> -1, commits |-> <<>>,
     i |-> 0, j |-> 0,
     log |-> <<>>, songLyrics |-> Null, songTitle |-> Null, result |-> NoRunResult]

NoTwin ==
    [pc |-> "idle", polls |-> <<>>, song |-> NoWaiter, task |-> NoWaiter,
     songQueries |-> 0, taskQueries |-> 0]

NoPagerResult == [kind |-> None, data |-> <<>>, message |-> <<>>]

NoPager ==
    [pc |-> "idle", since |-> Null, upstream |-> <<>>, page |-> 0, allCommits |-> <<>>,
     pages |-> <<>>, result |-> NoPagerResult, via |-> None, history |-> <<>>,
     lastCommit |-> Null, head |-> Null]

\* The parameters of a call; one that is not given is "".
NoParams ==
    [prompt |-> "", style |-> "", title |-> "", customMode |-> FALSE,
     instrumental |-> FALSE, callBackUrl |-> "", taskId |-> "", repoUrl |-> "",
     timeRange |-> "", startDate |-> "", endDate |-> ""]

NoChecked == [op |-> None, params |-> NoParams, kind |-> None, message |-> <<>>]

NoFormatter ==
    [pc |-> "idle", commits |-> <<>>, i |-> 0, repositoryRecord |-> 0,
     analysisTask |-> 0, details |-> <<>>, formattedCommits |-> <<>>,
     swallowed |-> <<>>, error |-> <<>>, result |-> NoRunResult]

InitCalls ==
    /\ adjust = NoAdjust
    /\ chunker = NoChunker
    /\ run = NoRun
    /\ collection = <<>>
    /\ twin = NoTwin
    /\ pager = NoPager
    /\ formatter = NoFormatter
    /\ analysisTasks = {}
    /\ checked = NoChecked

InitPipeline ==
    /\ InitCalls
    /\ commitTable = {}

InitSongRows ==
    /\ songs = {}
    /\ audioFiles = {}
    /\ attachments = {}
    /\ upstream = [t \in TaskIds |-> None]
    /\ handler = [h \in Handlers |-> NoHandler]
    /\ submit = NoSubmit
    /\ waiter = NoWaiter

InitSongTables ==
    /\ InitSongRows
    /\ repositories = {}

-----------------------------------------------------------------------------
(* Pure functions *)

RECURSIVE JSONStringifyPairs(_)
JSONStringifyPairs(params) ==
    IF params = <<>> THEN <<>>
    ELSE LET kv == Head(params)
             rest == Tail(params)
         IN  <<kv[1], ":", kv[2]>> \o
             (IF rest = <<>> THEN <<>> ELSE <<",">> \o JSONStringifyPairs(rest))

\* JSON.stringify of an object: its keys in insertion order.
JSONStringify(params) == <<"{">> \o JSONStringifyPairs(params) \o <<"}">>

GenerateRequestHash(service, method, endpoint, params) ==
    <<service, ":", method, ":", endpoint, ":">> \o JSONStringify(params)

RequestHash(r) == GenerateRequestHash(r.service, r.method, r.endpoint, r.params)

\* Whether two parameter objects hold the same keys with the same values.
SameObject(a, b) ==
    /\ Len(a) = Len(b)
    /\ {a[i] : i \in DOMAIN a} = {b[i] : i \in DOMAIN b}

RowIn(rows, hash) ==
    IF \E r \in rows : r.request_hash = hash
    THEN CHOOSE r \in rows : r.request_hash = hash
    ELSE NoRow

\* prisma.apiCall.findUnique({where: {request_hash}})
FindUnique(hash) == RowIn(apiCalls, hash)

\* IsCacheHit with a null expires_at taken for an expired one.
IsCacheHitNullExpired(cachedCall) ==
    /\ cachedCall # NoRow
    /\ cachedCall.is_success
    /\ cachedCall.expires_at # NullDate
    /\ now < cachedCall.expires_at

\* IsCacheHit without the test of is_success.
IsCacheHitAnyStatus(cachedCall) ==
    /\ cachedCall # NoRow
    /\ (cachedCall.expires_at = NullDate \/ now < cachedCall.expires_at)

IsCacheHit(cachedCall) ==
    /\ cachedCall # NoRow
    /\ cachedCall.is_success
    /\ (cachedCall.expires_at = NullDate \/ now < cachedCall.expires_at)

\* ExpiresAt with cacheHours added as milliseconds: no hour goes by.
ExpiresAtMillis(cacheHours) ==
    IF cacheHours # 0 THEN now ELSE NullDate

ExpiresAt(cacheHours) ==
    IF cacheHours # 0 THEN now + cacheHours * HOUR ELSE NullDate

NextId(rows) ==
    IF rows = {} THEN 1
    ELSE 1 + (CHOOSE m \in {r.id : r \in rows} : \A r \in rows : r.id <= m)

Merge(row, update) ==
    [f \in DOMAIN row |-> IF f \in DOMAIN update THEN update[f] ELSE row[f]]

\* Upsert as a plain create.
UpsertAlwaysCreates(rows, hash, update, create) ==
    rows \cup {Merge(create, [id |-> NextId(rows)])}

\* prisma.apiCall.upsert({where: {request_hash}, update, create})
Upsert(rows, hash, update, create) ==
    IF \E r \in rows : r.request_hash = hash
    THEN {IF r.request_hash = hash THEN Merge(r, update) ELSE r : r \in rows}
    ELSE rows \cup {Merge(create, [id |-> NextId(rows)])}

\* SuccessUpdate without error_message: null.
SuccessUpdateKeepsError(r, response) ==
    [response |-> response.data, status_code |-> response.status,
     expires_at |-> ExpiresAt(r.cacheHours), is_success |-> TRUE]

SuccessUpdate(r, response) ==
    [response |-> response.data, status_code |-> response.status,
     expires_at |-> ExpiresAt(r.cacheHours), is_success |-> TRUE,
     error_message |-> <<>>]

SuccessCreate(r, response) ==
    [id |-> 0, service |-> r.service, endpoint |-> r.endpoint, method |-> r.method,
     params |-> r.params, request_hash |-> RequestHash(r),
     response |-> response.data, status_code |-> response.status,
     expires_at |-> ExpiresAt(r.cacheHours), is_success |-> TRUE,
     error_message |-> <<>>]

StatusCode(e) == IF e.status # 0 THEN e.status ELSE 500

\* FailureUpdate that also resets expires_at.
FailureUpdateClearsExpiry(r, e) ==
    [status_code |-> StatusCode(e), is_success |-> FALSE,
     error_message |-> e.message, response |-> e.data, expires_at |-> NullDate]

FailureUpdate(r, e) ==
    [status_code |-> StatusCode(e), is_success |-> FALSE,
     error_message |-> e.message, response |-> e.data]

FailureCreate(r, e) ==
    [id |-> 0, service |-> r.service, endpoint |-> r.endpoint, method |-> r.method,
     params |-> r.params, request_hash |-> RequestHash(r),
     response |-> e.data, status_code |-> StatusCode(e),
     expires_at |-> NullDate, is_success |-> FALSE,
     error_message |-> e.message]

\* prisma.apiLimit.upsert of #updateApiLimit
UpdateLimitRow(service) ==
    IF apiLimits[service] = NoLimit
    THEN [id |-> 1, service |-> service,
          requests_limit |-> IF service = "github" THEN 5000 ELSE 1000,
          requests_used |-> 1, requests_reset |-> now + HOUR, is_active |-> TRUE]
    ELSE [apiLimits[service] EXCEPT !.requests_used = @ + 1]

\* The error #cachedApiCall throws for the caught error e, and what a
\* wrapper catching it throws in turn.
Thrown(r, e) ==
    IF r.service = "suno" THEN <<"Suno API call failed: ">> \o e.message
    ELSE e.message

Wrapped(r, message) ==
    IF r.via = "getCommits" THEN <<"Error al obtener commits: ">> \o message
    ELSE message

Returned(kind, data) == [kind |-> kind, data |-> data, message |-> <<>>]

Failed(message) == [kind |-> "error", data |-> Null, message |-> message]

InFlight(p) == pc[p] \notin {"idle", "done"}

Used(service) ==
    IF apiLimits[service] = NoLimit THEN 0 ELSE apiLimits[service].requests_used

-----------------------------------------------------------------------------
(* The initial state and the actions *)

InitGateway ==
    /\ apiCalls = {}
    /\ apiLimits = [s \in Services |-> NoLimit]
    /\ now = 0
    /\ pc = [p \in Procs |-> "idle"]
    /\ req = [p \in Procs |-> NoReq]
    /\ requestHash = [p \in Procs |-> NoHash]
    /\ outcome = [p \in Procs |-> NoOutcome]
    /\ error = [p \in Procs |-> NoError]
    /\ result = [p \in Procs |-> NoResult]
    /\ seen = [p \in Procs |-> None]
    /\ liveOk = [s \in Services |-> 0]
    /\ calls = 0

InitTables ==
    /\ InitGateway
    /\ InitSongTables
    /\ InitPipeline

Init == InitTables /\ dbFaulty = FALSE

InitFaulty == InitTables /\ dbFaulty = TRUE

\* The entry of #cachedApiCall: the options are read and the hash is made.
Begin(p, r) ==
    /\ pc[p] \in {"idle", "done"}
    /\ calls < MaxCalls
    /\ calls' = calls + 1
    /\ req' = [req EXCEPT ![p] = r]
    /\ requestHash' = [requestHash EXCEPT ![p] = RequestHash(r)]
    /\ pc' = [pc EXCEPT ![p] = IF r.disableCache THEN "http" ELSE "lookup"]
    /\ result' = [result EXCEPT ![p] = NoResult]
    /\ seen' = [seen EXCEPT ![p] = IF r.disableCache THEN "skipped" ELSE None]
    /\ UNCHANGED <<apiCalls, apiLimits, now, dbFaulty, outcome, error, liveOk>>
    /\ UNCHANGED songVars
    /\ UNCHANGED pipelineVars

GetCommitsParams(since, page) ==
    <<<<"per_page", "100">>, <<"page", page>>>> \o
    (IF since # Null THEN <<<<"since", since>>>> ELSE <<>>)

GetCommitsRequest(since) ==
    [service |-> "github", method |-> "GET", endpoint |-> "/repos/o/r/commits",
     params |-> GetCommitsParams(since, "1"), cacheHours |-> DEFAULT_CACHE_HOURS,
     disableCache |-> FALSE, via |-> "getCommits"]

GetCommits(p) ==
    /\ pc[p] \in {"idle", "done"}
    /\ \E since \in SinceOptions : Begin(p, GetCommitsRequest(since))

SunoCachedApiCall(p) ==
    /\ pc[p] \in {"idle", "done"}
    /\ \E cacheHours \in CacheHoursOptions, disableCache \in BOOLEAN :
        Begin(p, [service |-> "suno", method |-> "POST", endpoint |-> "/v1/generate",
                  params |-> SunoRequestData, cacheHours |-> cacheHours,
                  disableCache |-> disableCache, via |-> "direct"])

\* ResponseData read back from the cache row instead of the response.
ResponseDataFromCache(p) == FindUnique(requestHash[p]).response

\* What the call hands back after a live request: response.data.
ResponseData(p) == outcome[p].data

\* The call ends: its locals go out of scope, the caller holds the result.
Finish(p, res) ==
    /\ pc' = [pc EXCEPT ![p] = "done"]
    /\ result' = [result EXCEPT ![p] = res]
    /\ req' = [req EXCEPT ![p] = NoReq]
    /\ requestHash' = [requestHash EXCEPT ![p] = NoHash]
    /\ outcome' = [outcome EXCEPT ![p] = NoOutcome]
    /\ error' = [error EXCEPT ![p] = NoError]
    /\ seen' = [seen EXCEPT ![p] = None]

\* What the lookup found, for the call that goes on to a live request.
Classify(cachedCall) ==
    IF cachedCall = NoRow THEN "absent"
    ELSE IF ~cachedCall.is_success THEN "failed"
    ELSE "expired"

FindCached(p) ==
    /\ pc[p] = "lookup"
    /\ LET cachedCall == FindUnique(requestHash[p]) IN
        IF IsCacheHit(cachedCall)
        THEN Finish(p, Returned("cache", cachedCall.response))
        ELSE /\ pc' = [pc EXCEPT ![p] = "http"]
             /\ seen' = [seen EXCEPT ![p] = Classify(cachedCall)]
             /\ UNCHANGED <<req, requestHash, outcome, error, result>>
    /\ UNCHANGED <<apiCalls, apiLimits, now, dbFaulty, liveOk, calls>>
    /\ UNCHANGED songVars
    /\ UNCHANGED pipelineVars

\* AxiosRequest behind an admission check on the ApiLimit row.
AxiosRequestThrottled(p) ==
    /\ pc[p] = "http"
    /\ \/ apiLimits[req[p].service] = NoLimit
       \/ /\ apiLimits[req[p].service].is_active
          /\ apiLimits[req[p].service].requests_used
                < apiLimits[req[p].service].requests_limit
    /\ \E o \in HttpOutcomes :
        /\ outcome' = [outcome EXCEPT ![p] = o]
        /\ IF o.ok
           THEN /\ pc' = [pc EXCEPT ![p] = "store"]
                /\ liveOk' = [liveOk EXCEPT ![req[p].service] = @ + 1]
                /\ UNCHANGED error
           ELSE /\ pc' = [pc EXCEPT ![p] = "catch"]
                /\ error' = [error EXCEPT ![p] =
                               [message |-> o.message, status |-> o.status, data |-> o.data]]
                /\ UNCHANGED liveOk
    /\ UNCHANGED <<apiCalls, apiLimits, now, dbFaulty, req, requestHash, result,
                   seen, calls>>
    /\ UNCHANGED songVars
    /\ UNCHANGED pipelineVars

AxiosRequest(p) ==
    /\ pc[p] = "http"
    /\ \E o \in HttpOutcomes :
        /\ outcome' = [outcome EXCEPT ![p] = o]
        /\ IF o.ok
           THEN /\ pc' = [pc EXCEPT ![p] = "store"]
                /\ liveOk' = [liveOk EXCEPT ![req[p].service] = @ + 1]
                /\ UNCHANGED error
           ELSE /\ pc' = [pc EXCEPT ![p] = "catch"]
                /\ error' = [error EXCEPT ![p] =
                               [message |-> o.message, status |-> o.status, data |-> o.data]]
                /\ UNCHANGED liveOk
    /\ UNCHANGED <<apiCalls, apiLimits, now, dbFaulty, req, requestHash, result,
                   seen, calls>>
    /\ UNCHANGED songVars
    /\ UNCHANGED pipelineVars

StoreSuccess(p) ==
    /\ pc[p] = "store"
    /\ \E dbOk \in DbOutcomes :
        IF dbOk
        THEN /\ apiCalls' = Upsert(apiCalls, requestHash[p],
                                   SuccessUpdate(req[p], outcome[p]),
                                   SuccessCreate(req[p], outcome[p]))
             /\ pc' = [pc EXCEPT ![p] = "limit"]
             /\ UNCHANGED error
        ELSE /\ pc' = [pc EXCEPT ![p] = "catch"]
             /\ error' = [error EXCEPT ![p] = DbError]
             /\ UNCHANGED apiCalls
    /\ UNCHANGED <<apiLimits, now, dbFaulty, req, requestHash, outcome, result,
                   seen, liveOk, calls>>
    /\ UNCHANGED songVars
    /\ UNCHANGED pipelineVars

\* #updateApiLimit swallows the error of its upsert; the response is returned.
UpdateApiLimit(p) ==
    /\ pc[p] = "limit"
    /\ \E dbOk \in DbOutcomes :
        IF dbOk
        THEN apiLimits' = [apiLimits EXCEPT ![req[p].service] =
                             UpdateLimitRow(req[p].service)]
        ELSE UNCHANGED apiLimits
    /\ Finish(p, Returned("live", ResponseData(p)))
    /\ UNCHANGED <<apiCalls, now, dbFaulty, liveOk, calls>>
    /\ UNCHANGED songVars
    /\ UNCHANGED pipelineVars

\* LimitsAfterFailure with the failed call counted.
LimitsBilledOnFailure(p) ==
    [apiLimits EXCEPT ![req[p].service] = UpdateLimitRow(req[p].service)]

\* The ApiLimit table after the catch block: the catch block does not touch it.
LimitsAfterFailure(p) == apiLimits

\* The catch block: the failure is recorded and the caught error is thrown;
\* an error of the upsert itself leaves the catch block as it is.
RecordFailure(p) ==
    /\ pc[p] = "catch"
    /\ \E dbOk \in DbOutcomes :
        IF dbOk
        THEN /\ apiCalls' = Upsert(apiCalls, requestHash[p],
                                   FailureUpdate(req[p], error[p]),
                                   FailureCreate(req[p], error[p]))
             /\ Finish(p, Failed(Wrapped(req[p], Thrown(req[p], error[p]))))
        ELSE /\ Finish(p, Failed(Wrapped(req[p], DbError.message)))
             /\ UNCHANGED apiCalls
    /\ apiLimits' = LimitsAfterFailure(p)
    /\ UNCHANGED <<now, dbFaulty, liveOk, calls>>
    /\ UNCHANGED songVars
    /\ UNCHANGED pipelineVars

Tick ==
    /\ now + TickHours <= MaxNow
    /\ now' = now + TickHours
    /\ UNCHANGED <<apiCalls, apiLimits, dbFaulty, pc, req, requestHash, outcome,
                   error, result, seen, liveOk, calls>>
    /\ UNCHANGED songVars
    /\ UNCHANGED pipelineVars

Next ==
    \/ \E p \in Procs : GetCommits(p)
    \/ \E p \in Procs : SunoCachedApiCall(p)
    \/ \E p \in Procs : FindCached(p)
    \/ \E p \in Procs : AxiosRequest(p)
    \/ \E p \in Procs : StoreSuccess(p)
    \/ \E p \in Procs : UpdateApiLimit(p)
    \/ \E p \in Procs : RecordFailure(p)
    \/ Tick

Spec == Init /\ [][Next]_vars

SpecFaulty == InitFaulty /\ [][Next]_vars

-----------------------------------------------------------------------------
(* Two getCommits requests with the same options, one after the other *)

FirstGetCommits ==
    /\ calls = 0
    /\ \E since \in RepeatedSinceOptions : Begin("p1", GetCommitsRequest(since))

SecondGetCommits ==
    /\ calls = 1
    /\ pc["p1"] = "done"
    /\ \E since \in RepeatedSinceOptions :
        /\ FindUnique(RequestHash(GetCommitsRequest(since))) # NoRow
        /\ Begin("p2", GetCommitsRequest(since))

NextRepeated ==
    \/ FirstGetCommits
    \/ SecondGetCommits
    \/ \E p \in Procs : FindCached(p)
    \/ \E p \in Procs : AxiosRequest(p)
    \/ \E p \in Procs : StoreSuccess(p)
    \/ \E p \in Procs : UpdateApiLimit(p)
    \/ \E p \in Procs : RecordFailure(p)
    \/ Tick

SpecRepeated == Init /\ [][NextRepeated]_vars

-----------------------------------------------------------------------------
(* #generateRequestHash applied to the requests callers can make *)

HashInputs ==
    [service : Services, method : Methods, endpoint : {"/e"}, params : ParamObjects,
     cacheHours : {DEFAULT_CACHE_HOURS}, disableCache : {FALSE}, via : {"direct"}]

InitHash ==
    /\ apiCalls = {}
    /\ apiLimits = [s \in Services |-> NoLimit]
    /\ now = 0
    /\ dbFaulty = FALSE
    /\ pc = [p \in Procs |-> "idle"]
    /\ req \in [Procs -> HashInputs]
    /\ requestHash = [p \in Procs |-> NoHash]
    /\ outcome = [p \in Procs |-> NoOutcome]
    /\ error = [p \in Procs |-> NoError]
    /\ result = [p \in Procs |-> NoResult]
    /\ seen = [p \in Procs |-> None]
    /\ liveOk = [s \in Services |-> 0]
    /\ calls = 0
    /\ InitSongTables
    /\ InitPipeline

ApplyGenerateRequestHash(p) ==
    /\ requestHash[p] = NoHash
    /\ requestHash' = [requestHash EXCEPT ![p] = RequestHash(req[p])]
    /\ UNCHANGED <<apiCalls, apiLimits, now, dbFaulty, pc, req, outcome, error,
                   result, seen, liveOk, calls>>
    /\ UNCHANGED songVars
    /\ UNCHANGED pipelineVars

NextHash == \E p \in Procs : ApplyGenerateRequestHash(p)

SpecHash == InitHash /\ [][NextHash]_vars

-----------------------------------------------------------------------------
(* One caller over an ApiLimit table that earlier runs have filled *)

\* The row of a service as earlier calls left it: one request short of the
\* limit or at the limit, switched on or off.
LimitRowsFound(service) ==
    {NoLimit} \cup
    { [id |-> 1, service |-> service,
       requests_limit |-> IF service = "github" THEN 5000 ELSE 1000,
       requests_used |-> (IF service = "github" THEN 5000 ELSE 1000) + d,
       requests_reset |-> HOUR, is_active |-> a] : d \in {-1, 0}, a \in BOOLEAN }

InitLimits ==
    /\ apiCalls = {}
    /\ apiLimits \in { f \in [Services -> UNION {LimitRowsFound(s) : s \in Services}] :
                         \A s \in Services : f[s] \in LimitRowsFound(s) }
    /\ now = 0
    /\ dbFaulty = FALSE
    /\ pc = [p \in Procs |-> "idle"]
    /\ req = [p \in Procs |-> NoReq]
    /\ requestHash = [p \in Procs |-> NoHash]
    /\ outcome = [p \in Procs |-> NoOutcome]
    /\ error = [p \in Procs |-> NoError]
    /\ result = [p \in Procs |-> NoResult]
    /\ seen = [p \in Procs |-> None]
    /\ liveOk = [s \in Services |-> 0]
    /\ calls = 0
    /\ InitSongTables
    /\ InitPipeline

NextLimits ==
    \/ GetCommits("p1")
    \/ SunoCachedApiCall("p1")
    \/ FindCached("p1")
    \/ AxiosRequest("p1")
    \/ StoreSuccess("p1")
    \/ UpdateApiLimit("p1")
    \/ RecordFailure("p1")
    \/ Tick

SpecLimits == InitLimits /\ [][NextLimits]_vars

-----------------------------------------------------------------------------
(* The life of a Song *)

SongIn(rows, taskId) ==
    IF \E s \in rows : s.suno_task_id = taskId
    THEN CHOOSE s \in rows : s.suno_task_id = taskId
    ELSE NoSong

\* prisma.song.findUnique({where: {suno_task_id}})
SongOf(taskId) == SongIn(songs, taskId)

AudioFilesOf(files, song) == {f \in files : f.song_id = song.id}

\* string.includes(word) on a status.
Includes(status, word) ==
    \E i \in DOMAIN StatusWords[status] : StatusWords[status][i] = word

\* The tracks downloadAndSaveSongFromCallback does not skip.
WithAudioUrl(tracks) ==
    IF tracks = NoTracks THEN <<>>
    ELSE SelectSeq(tracks, LAMBDA track : track.audio_url # Null)

SongFailure == [ok |-> FALSE, status |-> 0, data |-> <<>>, message |-> <<"Network Error">>]

SongResponse(data) == [ok |-> TRUE, status |-> 200, data |-> data, message |-> <<>>]

LyricsRequest ==
    [service |-> "suno", method |-> "POST", endpoint |-> "/v1/lyrics",
     params |-> <<<<"prompt", "l1">>, <<"callBackUrl", "cb/karaoke/callback/lyrics">>>>,
     cacheHours |-> DEFAULT_CACHE_HOURS, disableCache |-> FALSE, via |-> "direct"]

AudioRequest(instrumental) ==
    [service |-> "suno", method |-> "POST", endpoint |-> "/v1/generate",
     params |-> <<<<"prompt", IF instrumental THEN "A Rock song" ELSE "l1">>,
                  <<"customMode", "true">>,
                  <<"instrumental", IF instrumental THEN "true" ELSE "false">>,
                  <<"model", "V3_5">>,
                  <<"callBackUrl", IF instrumental THEN "cb" ELSE "cb/karaoke/callback">>,
                  <<"style", "Rock">>,
                  <<"title", "t1">>>>,
     cacheHours |-> DEFAULT_CACHE_HOURS, disableCache |-> FALSE, via |-> "direct"]

\* The options a caller may give to getTaskDetails and getLyricsTaskDetails;
\* an option that is not given has its default.
TaskOptions == {[disableCache |-> FALSE], [disableCache |-> TRUE]}

\* FinalOptions that leaves the caller's disableCache as it was given.
FinalOptionsAsGiven(options) == options

\* const finalOptions = { ...options, disableCache: true }
FinalOptions(options) == [options EXCEPT !.disableCache = TRUE]

RecordInfoEndpoints ==
    [getTaskDetails |-> "/v1/generate/record-info",
     getLyricsTaskDetails |-> "/v1/lyrics/record-info"]

\* The request getTaskDetails or getLyricsTaskDetails hands to #cachedApiCall.
RecordInfoRequest(via, taskId, options) ==
    [service |-> "suno", method |-> "GET", endpoint |-> RecordInfoEndpoints[via],
     params |-> <<<<"taskId", taskId>>>>,
     cacheHours |-> DEFAULT_CACHE_HOURS,
     disableCache |-> FinalOptions(options).disableCache, via |-> "direct"]

\* SunoService.getTaskDetails(taskId, { disableCache: true })
TaskDetailsRequest(taskId) ==
    RecordInfoRequest("getTaskDetails", taskId, [disableCache |-> TRUE])

\* SunoService.#cachedApiCall for request r whose live request, if one is
\* made, is answered by o: whether the cache answers, what is returned or
\* thrown, and the tables afterwards.
GatewayHit(r) == ~r.disableCache /\ IsCacheHit(FindUnique(RequestHash(r)))

GatewayAnswer(r, o) ==
    IF GatewayHit(r) THEN Returned("cache", FindUnique(RequestHash(r)).response)
    ELSE IF o.ok THEN Returned("live", o.data)
    ELSE Failed(Thrown(r, o))

GatewayCall(r, o) ==
    /\ apiCalls' =
         IF GatewayHit(r) THEN apiCalls
         ELSE IF o.ok
              THEN Upsert(apiCalls, RequestHash(r), SuccessUpdate(r, o), SuccessCreate(r, o))
              ELSE Upsert(apiCalls, RequestHash(r), FailureUpdate(r, o), FailureCreate(r, o))
    /\ apiLimits' =
         IF ~GatewayHit(r) /\ o.ok
         THEN [apiLimits EXCEPT ![r.service] = UpdateLimitRow(r.service)]
         ELSE apiLimits
    /\ liveOk' =
         IF ~GatewayHit(r) /\ o.ok
         THEN [liveOk EXCEPT ![r.service] = @ + 1]
         ELSE liveOk

\* The task id the music service gives to its next task.
NextTaskId ==
    TaskIdSeq[CHOOSE i \in DOMAIN TaskIdSeq :
                /\ upstream[TaskIdSeq[i]] = None
                /\ \A j \in 1..(i - 1) : upstream[TaskIdSeq[j]] # None]

LyricsOutcomes == {SongFailure, SongResponse(<<"taskId", "L1">>)}

\* What the music service answers to POST /generate: no answer, an answer
\* without a task id, or the id of a new task.
AudioOutcomes ==
    {SongFailure, SongResponse(<<>>)} \cup
    (IF \E t \in TaskIds : upstream[t] = None
     THEN {SongResponse(<<"taskId", NextTaskId>>)}
     ELSE {})

\* What record-info says of a task: nothing for a task it does not know,
\* the status, and the two audio urls once the task has succeeded.
TaskDetails(taskId) ==
    IF upstream[taskId] = None THEN <<>>
    ELSE IF upstream[taskId] = "SUCCESS" THEN <<"SUCCESS", Track1.audio_url, Track2.audio_url>>
    ELSE <<upstream[taskId]>>

PollOutcomes(taskId) == {SongFailure, SongResponse(TaskDetails(taskId))}

-----------------------------------------------------------------------------
(* generateSongFromRepo, from "11. Send to Suno" *)

SubmitDone(res) ==
    [pc |-> "done", instrumental |-> FALSE, sunoTaskId |-> Null, result |-> res]

SubmitFailed(message) ==
    SubmitDone([kind |-> "error", taskId |-> Null,
                message |-> <<"Error generating song from repository: ">> \o message])

\* Steps 1 to 10 have given the lyrics and the title.
SendToSuno(instrumental) ==
    /\ submit.pc \in {"idle", "done"}
    /\ calls < MaxCalls
    /\ calls' = calls + 1
    /\ submit' = [pc |-> IF instrumental THEN "audio" ELSE "lyrics",
                  instrumental |-> instrumental, sunoTaskId |-> Null,
                  result |-> NoSubmitResult]
    /\ UNCHANGED <<apiCalls, apiLimits, now, liveOk, songs, audioFiles, attachments,
                   repositories, upstream, handler, waiter>>
    /\ UNCHANGED gatewayLocals
    /\ UNCHANGED pipelineVars

GenerateLyrics ==
    /\ submit.pc = "lyrics"
    /\ \E o \in LyricsOutcomes :
        /\ GatewayCall(LyricsRequest, o)
        /\ LET answer == GatewayAnswer(LyricsRequest, o) IN
            submit' = IF answer.kind = "error" THEN SubmitFailed(answer.message)
                      ELSE [submit EXCEPT !.pc = "audio"]
    /\ UNCHANGED <<now, calls, songs, audioFiles, attachments, repositories, upstream,
                   handler, waiter>>
    /\ UNCHANGED gatewayLocals
    /\ UNCHANGED pipelineVars

GenerateAudio ==
    /\ submit.pc = "audio"
    /\ LET r == AudioRequest(submit.instrumental) IN
        \E o \in AudioOutcomes :
            /\ GatewayCall(r, o)
            /\ upstream' = IF ~GatewayHit(r) /\ o.ok /\ o.data # <<>>
                           THEN [upstream EXCEPT ![o.data[2]] = "PENDING"]
                           ELSE upstream
            /\ LET answer == GatewayAnswer(r, o) IN
                submit' =
                    IF answer.kind = "error" THEN SubmitFailed(answer.message)
                    ELSE IF answer.data = <<>>
                    THEN SubmitFailed(<<"No taskId found in SunoService response data">>)
                    ELSE [submit EXCEPT !.pc = "cover", !.sunoTaskId = answer.data[2]]
    /\ UNCHANGED <<now, calls, songs, audioFiles, attachments, repositories, handler,
                   waiter>>
    /\ UNCHANGED gatewayLocals
    /\ UNCHANGED pipelineVars

\* AIService.generateCoverImage: the image is stored as an attachment, or
\* the error is thrown on.
GenerateCoverImage ==
    /\ submit.pc = "cover"
    /\ \E ok \in UploadOutcomes :
        IF ok
        THEN /\ attachments' = attachments \cup
                  {[id |-> NextId(attachments), url |-> "cover", sunoTaskId |-> Null,
                    source |-> "openai"]}
             /\ submit' = [submit EXCEPT !.pc = "repo"]
        ELSE /\ submit' = SubmitFailed(<<"Error generando cover image: ">>)
             /\ UNCHANGED attachments
    /\ UNCHANGED <<apiCalls, apiLimits, now, liveOk, calls, songs, audioFiles,
                   repositories, upstream, handler, waiter>>
    /\ UNCHANGED gatewayLocals
    /\ UNCHANGED pipelineVars

FindOrCreateRepoId ==
    /\ submit.pc = "repo"
    /\ repositories' =
         IF \E r \in repositories : r.full_name = "o/r" THEN repositories
         ELSE repositories \cup {[id |-> NextId(repositories), full_name |-> "o/r"]}
    /\ submit' = [submit EXCEPT !.pc = "create"]
    /\ UNCHANGED <<apiCalls, apiLimits, now, liveOk, calls, songs, audioFiles,
                   attachments, upstream, handler, waiter>>
    /\ UNCHANGED gatewayLocals
    /\ UNCHANGED pipelineVars

\* prisma.song.create: suno_task_id is unique.
CreateSong ==
    /\ submit.pc = "create"
    /\ IF SongOf(submit.sunoTaskId) # NoSong
       THEN /\ submit' = SubmitFailed(<<"Unique constraint failed: suno_task_id">>)
            /\ UNCHANGED songs
       ELSE /\ songs' = songs \cup
                 {[id |-> NextId(songs), suno_task_id |-> submit.sunoTaskId,
                   status |-> "pending", completed_at |-> NullDate,
                   lyrics |-> IF run.pc = "suno" THEN run.songLyrics ELSE "l1"]}
            /\ submit' = SubmitDone([kind |-> "ok", taskId |-> submit.sunoTaskId,
                                     message |-> <<>>])
    /\ UNCHANGED <<apiCalls, apiLimits, now, liveOk, calls, audioFiles, attachments,
                   repositories, upstream, handler, waiter>>
    /\ UNCHANGED gatewayLocals
    /\ UNCHANGED pipelineVars

-----------------------------------------------------------------------------
(* handleSunoCallback and handleSunoCallbackLyrics *)

AttachmentIds(savedFiles) == [k \in DOMAIN savedFiles |-> savedFiles[k].attachment.id]

HandlerDone(res) ==
    [pc |-> "done", kind |-> None, cb |-> NoCallback, savedFiles |-> <<>>,
     songRecord |-> NoSong, i |-> 0, result |-> res]

HandlerReturned(hd) ==
    HandlerDone([kind |-> "ok", taskId |-> hd.cb.task_id,
                 callbackType |-> hd.cb.callbackType,
                 doAttachments |-> AttachmentIds(hd.savedFiles), message |-> <<>>])

HandlerFailed(message) ==
    HandlerDone([kind |-> "error", taskId |-> Null, callbackType |-> "",
                 doAttachments |-> <<>>, message |-> message])

\* The entry of handleSunoCallback, up to its first await that waits: the
\* body is checked, and so is the track list by downloadAndSaveSongFromCallback.
HandleSunoCallback(h, cb) ==
    /\ handler[h].pc \in {"idle", "done"}
    /\ calls < MaxCalls
    /\ calls' = calls + 1
    /\ handler' = [handler EXCEPT ![h] =
         IF ~cb.hasData
         THEN HandlerFailed(<<"Error handling Suno callback: ", "Invalid callback data">>)
         ELSE IF cb.tracks = NoTracks
         THEN HandlerFailed(<<"Error handling Suno callback: ", "Error downloading song: ">>)
         ELSE [pc |-> IF WithAudioUrl(cb.tracks) = <<>> THEN "find" ELSE "download",
               kind |-> "audio", cb |-> cb, savedFiles |-> <<>>, songRecord |-> NoSong,
               i |-> 1, result |-> NoHandlerResult]]
    /\ UNCHANGED <<apiCalls, apiLimits, now, liveOk, songs, audioFiles, attachments,
                   repositories, upstream, submit, waiter>>
    /\ UNCHANGED gatewayLocals
    /\ UNCHANGED pipelineVars

\* UploadService.createAttachmentFromUrl(track.audio_url) for the next track.
DownloadTrack(h) ==
    /\ handler[h].pc = "download"
    /\ LET hd == handler[h]
           track == WithAudioUrl(hd.cb.tracks)[hd.i]
           attachment == [id |-> NextId(attachments), url |-> track.audio_url,
                          sunoTaskId |-> hd.cb.task_id, source |-> "suno"]
       IN  \E ok \in UploadOutcomes :
             IF ok
             THEN /\ attachments' = attachments \cup {attachment}
                  /\ handler' = [handler EXCEPT ![h] =
                       [hd EXCEPT
                          !.savedFiles = Append(@, [trackInfo |-> track,
                                                    attachment |-> attachment]),
                          !.i = @ + 1,
                          !.pc = IF hd.i = Len(WithAudioUrl(hd.cb.tracks))
                                 THEN "find" ELSE "download"]]
             ELSE /\ handler' = [handler EXCEPT ![h] =
                       HandlerFailed(<<"Error handling Suno callback: ",
                                       "Error downloading song: ">>)]
                  /\ UNCHANGED attachments
    /\ UNCHANGED <<apiCalls, apiLimits, now, liveOk, calls, songs, audioFiles,
                   repositories, upstream, submit, waiter>>
    /\ UNCHANGED gatewayLocals
    /\ UNCHANGED pipelineVars

\* FindSong with a Song made up for a task id that has none.
SongsMadeUpFromCallback(cb) ==
    IF SongOf(cb.task_id) = NoSong
    THEN songs \cup {[id |-> NextId(songs), suno_task_id |-> cb.task_id,
                      status |-> "pending", completed_at |-> NullDate, lyrics |-> "l1"]}
    ELSE songs

\* MarksCompleted for every callback that names its type.
MarksCompletedOfAnyType(cb) == cb.callbackType # ""

\* if(callbackType === 'complete')
MarksCompleted(cb) == cb.callbackType = "complete"

\* The table songs after the lookup of a callback: the lookup writes nothing.
SongsAfterLookup(cb) == songs

\* prisma.song.findUnique({where: {suno_task_id}}); without a Song the loop
\* over savedFiles creates nothing and the handler returns.
FindSong(h) ==
    /\ handler[h].pc = "find"
    /\ LET hd == handler[h]
           songRecord == SongOf(hd.cb.task_id)
       IN  handler' = [handler EXCEPT ![h] =
             IF songRecord = NoSong THEN HandlerReturned(hd)
             ELSE IF MarksCompleted(hd.cb)
             THEN [hd EXCEPT !.songRecord = songRecord, !.pc = "update"]
             ELSE IF hd.savedFiles = <<>> THEN HandlerReturned(hd)
             ELSE [hd EXCEPT !.songRecord = songRecord, !.pc = "files", !.i = 1]]
    /\ songs' = SongsAfterLookup(handler[h].cb)
    /\ UNCHANGED <<apiCalls, apiLimits, now, liveOk, calls, audioFiles, attachments,
                   repositories, upstream, submit, waiter>>
    /\ UNCHANGED gatewayLocals
    /\ UNCHANGED pipelineVars

\* CompletedSong that does not set completed_at.
CompletedSongUndated(song) == [song EXCEPT !.status = "completed"]

\* data: { status: 'completed', completed_at: new Date() }
CompletedSong(song) == [song EXCEPT !.status = "completed", !.completed_at = now]

\* prisma.song.update({data: {status: 'completed', completed_at: new Date()}})
UpdateSong(h) ==
    /\ handler[h].pc = "update"
    /\ LET hd == handler[h] IN
        /\ songs' = {IF s.id = hd.songRecord.id
                     THEN CompletedSong(s)
                     ELSE s : s \in songs}
        /\ handler' = [handler EXCEPT ![h] =
             IF hd.savedFiles = <<>> THEN HandlerReturned(hd)
             ELSE [hd EXCEPT !.pc = "files", !.i = 1]]
    /\ UNCHANGED <<apiCalls, apiLimits, now, liveOk, calls, audioFiles, attachments,
                   repositories, upstream, submit, waiter>>
    /\ UNCHANGED gatewayLocals
    /\ UNCHANGED pipelineVars

\* prisma.audioFile.create for the next saved file.
CreateAudioFile(h) ==
    /\ handler[h].pc = "files"
    /\ LET hd == handler[h]
           info == hd.savedFiles[hd.i]
       IN  /\ audioFiles' = audioFiles \cup
                 {[id |-> NextId(audioFiles), song_id |-> hd.songRecord.id,
                   attachment_id |-> info.attachment.id, url |-> info.attachment.url,
                   suno_audio_id |-> info.trackInfo.id]}
           /\ handler' = [handler EXCEPT ![h] =
                IF hd.i = Len(hd.savedFiles) THEN HandlerReturned(hd)
                ELSE [hd EXCEPT !.i = @ + 1]]
    /\ UNCHANGED <<apiCalls, apiLimits, now, liveOk, calls, songs, attachments,
                   repositories, upstream, submit, waiter>>
    /\ UNCHANGED gatewayLocals
    /\ UNCHANGED pipelineVars

HandleSunoCallbackLyrics(h, cb) ==
    /\ handler[h].pc \in {"idle", "done"}
    /\ calls < MaxCalls
    /\ calls' = calls + 1
    /\ handler' = [handler EXCEPT ![h] =
         IF ~cb.hasData
         THEN HandlerFailed(<<"Error handling Suno lyrics callback: ",
                              "Invalid callback data">>)
         ELSE [pc |-> "lfind", kind |-> "lyrics", cb |-> cb, savedFiles |-> <<>>,
               songRecord |-> NoSong, i |-> 0, result |-> NoHandlerResult]]
    /\ UNCHANGED <<apiCalls, apiLimits, now, liveOk, songs, audioFiles, attachments,
                   repositories, upstream, submit, waiter>>
    /\ UNCHANGED gatewayLocals
    /\ UNCHANGED pipelineVars

FindSongForLyrics(h) ==
    /\ handler[h].pc = "lfind"
    /\ LET hd == handler[h]
           songRecord == SongOf(hd.cb.task_id)
       IN  handler' = [handler EXCEPT ![h] =
             IF songRecord = NoSong \/ hd.cb.lyrics = Null THEN HandlerReturned(hd)
             ELSE [hd EXCEPT !.songRecord = songRecord, !.pc = "lupdate"]]
    /\ songs' = SongsAfterLookup(handler[h].cb)
    /\ UNCHANGED <<apiCalls, apiLimits, now, liveOk, calls, audioFiles, attachments,
                   repositories, upstream, submit, waiter>>
    /\ UNCHANGED gatewayLocals
    /\ UNCHANGED pipelineVars

\* prisma.song.update({data: {lyrics: improvedLyrics}})
UpdateLyrics(h) ==
    /\ handler[h].pc = "lupdate"
    /\ LET hd == handler[h] IN
        /\ songs' = {IF s.id = hd.songRecord.id
                     THEN [s EXCEPT !.lyrics = hd.cb.lyrics]
                     ELSE s : s \in songs}
        /\ handler' = [handler EXCEPT ![h] = HandlerReturned(hd)]
    /\ UNCHANGED <<apiCalls, apiLimits, now, liveOk, calls, audioFiles, attachments,
                   repositories, upstream, submit, waiter>>
    /\ UNCHANGED gatewayLocals
    /\ UNCHANGED pipelineVars

-----------------------------------------------------------------------------
(* checkSongStatus and waitForSongCompletion *)

WaiterDone(res) ==
    [pc |-> "done", via |-> None, taskId |-> Null, attempts |-> 0, maxAttempts |-> 0,
     result |-> res]

WaiterReturned(data) ==
    WaiterDone([kind |-> "ok", songStatus |-> data[1], details |-> data,
                message |-> <<>>])

WaiterFailed(message) ==
    WaiterDone([kind |-> "error", songStatus |-> Null, details |-> <<>>,
                message |-> message])

CheckSongStatus(taskId) ==
    /\ waiter.pc \in {"idle", "done"}
    /\ calls < MaxCalls
    /\ calls' = calls + 1
    /\ waiter' = [pc |-> "poll", via |-> "checkSongStatus", taskId |-> taskId,
                  attempts |-> 0, maxAttempts |-> 1, result |-> NoWaitResult]
    /\ UNCHANGED <<apiCalls, apiLimits, now, liveOk, songs, audioFiles, attachments,
                   repositories, upstream, handler, submit>>
    /\ UNCHANGED gatewayLocals
    /\ UNCHANGED pipelineVars

WaitForSongCompletion(taskId, maxAttempts) ==
    /\ waiter.pc \in {"idle", "done"}
    /\ calls < MaxCalls
    /\ calls' = calls + 1
    /\ waiter' = [pc |-> "poll", via |-> "waitForSongCompletion", taskId |-> taskId,
                  attempts |-> 0, maxAttempts |-> maxAttempts, result |-> NoWaitResult]
    /\ UNCHANGED <<apiCalls, apiLimits, now, liveOk, songs, audioFiles, attachments,
                   repositories, upstream, handler, submit>>
    /\ UNCHANGED gatewayLocals
    /\ UNCHANGED pipelineVars

\* SunoService.waitForTaskCompletion(taskId, maxAttempts), taskType 'audio'.
WaitForTaskCompletion(taskId, maxAttempts) ==
    /\ waiter.pc \in {"idle", "done"}
    /\ calls < MaxCalls
    /\ calls' = calls + 1
    /\ waiter' = [pc |-> "poll", via |-> "waitForTaskCompletion", taskId |-> taskId,
                  attempts |-> 0, maxAttempts |-> maxAttempts, result |-> NoWaitResult]
    /\ UNCHANGED <<apiCalls, apiLimits, now, liveOk, songs, audioFiles, attachments,
                   repositories, upstream, handler, submit>>
    /\ UNCHANGED gatewayLocals
    /\ UNCHANGED pipelineVars

\* checkSongStatus after getTaskDetails: taskDetails.data.status is read.
AfterCheck(answer) ==
    IF answer.kind = "error"
    THEN WaiterFailed(<<"Error checking song status: ">> \o answer.message)
    ELSE IF answer.data = <<>>
    THEN WaiterFailed(<<"Error checking song status: ", "TypeError">>)
    ELSE WaiterReturned(answer.data)

\* One round of poll() in waitForSongCompletion.
AfterPoll(w, answer) ==
    IF answer.kind = "error"
    THEN WaiterFailed(<<"Error waiting for song completion: ">> \o answer.message)
    ELSE LET status == IF answer.data = <<>> THEN "UNKNOWN" ELSE answer.data[1] IN
         IF status = "SUCCESS" THEN WaiterReturned(answer.data)
         ELSE IF Includes(status, "FAILED") \/ Includes(status, "ERROR")
         THEN WaiterFailed(<<"Error waiting for song completion: ",
                             "Song generation failed with status: ", status>>)
         ELSE IF w.attempts + 1 >= w.maxAttempts
         THEN WaiterFailed(<<"Error waiting for song completion: ",
                             "Song did not complete after attempts">>)
         ELSE [w EXCEPT !.attempts = @ + 1]

\* One round of checkStatus() in waitForTaskCompletion: the error of
\* getTaskDetails is passed on as it is, and only FAILED ends the wait.
AfterTaskPoll(w, answer) ==
    IF answer.kind = "error" THEN WaiterFailed(answer.message)
    ELSE LET status == IF answer.data = <<>> THEN "UNKNOWN" ELSE answer.data[1] IN
         IF status = "SUCCESS" THEN WaiterReturned(answer.data)
         ELSE IF answer.data # <<>> /\ Includes(status, "FAILED")
         THEN WaiterFailed(<<"Task failed with status: ", status>>)
         ELSE IF w.attempts + 1 >= w.maxAttempts
         THEN WaiterFailed(<<"Task did not complete after attempts">>)
         ELSE [w EXCEPT !.attempts = @ + 1]

\* The answers getTaskDetails may give to a poll, one after the other.
MaxPolls == 3

PollResults == {"Network Error", "PENDING"} \cup EndStatuses

\* What getTaskDetails returns or throws for a poll result.
PollAnswer(pollResult) ==
    IF pollResult = "Network Error"
    THEN Failed(<<"Suno API call failed: ", "Network Error">>)
    ELSE Returned("live", <<pollResult>>)

RECURSIVE PollSequences(_)
PollSequences(n) ==
    IF n = 0 THEN {<<>>}
    ELSE {Append(polls, a) : polls \in PollSequences(n - 1), a \in PollResults}

\* waitForSongCompletion and waitForTaskCompletion are begun for the same
\* task with the same maxAttempts; the k-th query of either gets polls[k].
WaitTwice(polls, maxAttempts) ==
    /\ twin.pc = "idle"
    /\ twin' = [pc |-> "poll", polls |-> polls,
                song |-> [pc |-> "poll", via |-> "waitForSongCompletion",
                          taskId |-> "T1", attempts |-> 0,
                          maxAttempts |-> maxAttempts, result |-> NoWaitResult],
                task |-> [pc |-> "poll", via |-> "waitForTaskCompletion",
                          taskId |-> "T1", attempts |-> 0,
                          maxAttempts |-> maxAttempts, result |-> NoWaitResult],
                songQueries |-> 0, taskQueries |-> 0]
    /\ UNCHANGED <<apiCalls, apiLimits, now, liveOk, calls>>
    /\ UNCHANGED gatewayLocals
    /\ UNCHANGED songVars
    /\ UNCHANGED <<adjust, chunker, run, collection>>
    /\ UNCHANGED afterTwin

\* Each wait that has not ended makes its next query.
PollTwice ==
    /\ twin.pc = "poll"
    /\ LET song == IF twin.song.pc = "poll"
                   THEN AfterPoll(twin.song, PollAnswer(twin.polls[twin.songQueries + 1]))
                   ELSE twin.song
           task == IF twin.task.pc = "poll"
                   THEN AfterTaskPoll(twin.task,
                                      PollAnswer(twin.polls[twin.taskQueries + 1]))
                   ELSE twin.task
       IN  twin' = [twin EXCEPT
                      !.song = song,
                      !.task = task,
                      !.songQueries = IF twin.song.pc = "poll" THEN @ + 1 ELSE @,
                      !.taskQueries = IF twin.task.pc = "poll" THEN @ + 1 ELSE @,
                      !.pc = IF song.pc = "done" /\ task.pc = "done" THEN "done"
                             ELSE "poll"]
    /\ UNCHANGED <<apiCalls, apiLimits, now, liveOk, calls>>
    /\ UNCHANGED gatewayLocals
    /\ UNCHANGED songVars
    /\ UNCHANGED <<adjust, chunker, run, collection>>
    /\ UNCHANGED afterTwin

NextTwin ==
    \/ \E polls \in PollSequences(MaxPolls), maxAttempts \in 0..MaxPolls :
          WaitTwice(polls, maxAttempts)
    \/ PollTwice

SpecTwin == Init /\ [][NextTwin]_vars

\* The table songs after a poll: a poll writes nothing to it.
SongsAfterPoll(taskId, data) == songs

\* SunoService.getTaskDetails(taskId, {disableCache: true}) and what the
\* caller does with the answer.
GetTaskDetails ==
    /\ waiter.pc = "poll"
    /\ LET r == TaskDetailsRequest(waiter.taskId) IN
        \E o \in PollOutcomes(waiter.taskId) :
            /\ GatewayCall(r, o)
            /\ waiter' = IF waiter.via = "checkSongStatus"
                         THEN AfterCheck(GatewayAnswer(r, o))
                         ELSE IF waiter.via = "waitForTaskCompletion"
                         THEN AfterTaskPoll(waiter, GatewayAnswer(r, o))
                         ELSE AfterPoll(waiter, GatewayAnswer(r, o))
            /\ songs' = SongsAfterPoll(waiter.taskId, o.data)
    /\ UNCHANGED <<now, calls, audioFiles, attachments, repositories, upstream, handler,
                   submit>>
    /\ UNCHANGED gatewayLocals
    /\ UNCHANGED pipelineVars

\* What record-info says of a lyrics task.
LyricsPollOutcomes ==
    {SongFailure, SongResponse(<<"PENDING">>), SongResponse(<<"SUCCESS", "l1">>)}

\* A call of SunoService.getTaskDetails or getLyricsTaskDetails by any caller,
\* with the options it gives.  The result keeps what the ApiCall record of
\* the request held when the call was made.
QueryRecordInfo(via, taskId, options) ==
    /\ waiter.pc \in {"idle", "done"}
    /\ calls < MaxCalls
    /\ calls' = calls + 1
    /\ LET r == RecordInfoRequest(via, taskId, options)
           stored == FindUnique(RequestHash(r))
       IN  \E o \in IF via = "getTaskDetails" THEN PollOutcomes(taskId)
                     ELSE LyricsPollOutcomes :
             /\ GatewayCall(r, o)
             /\ LET answer == GatewayAnswer(r, o) IN
                 waiter' = WaiterDone(
                     [kind |-> IF answer.kind = "error" THEN "error" ELSE "ok",
                      songStatus |-> IF answer.kind = "error" \/ answer.data = <<>>
                                     THEN Null ELSE answer.data[1],
                      details |-> IF answer.kind = "error" THEN <<>> ELSE answer.data,
                      message |-> answer.message,
                      via |-> via, taskId |-> taskId, options |-> options,
                      stored |-> IF IsCacheHit(stored) THEN stored.response ELSE <<>>])
    /\ UNCHANGED <<now, songs, audioFiles, attachments, repositories, upstream, handler,
                   submit>>
    /\ UNCHANGED gatewayLocals
    /\ UNCHANGED pipelineVars

\* The music service ends a task.
UpstreamProgress ==
    /\ \E t \in TaskIds, s \in EndStatuses :
        /\ upstream[t] = "PENDING"
        /\ upstream' = [upstream EXCEPT ![t] = s]
    /\ UNCHANGED <<apiCalls, apiLimits, now, liveOk, calls, songs, audioFiles,
                   attachments, repositories, handler, submit, waiter>>
    /\ UNCHANGED gatewayLocals
    /\ UNCHANGED pipelineVars

\* Songs are submitted, and audio and lyrics callbacks are handled.
NextCallback ==
    \/ SendToSuno(TRUE)
    \/ GenerateAudio
    \/ GenerateCoverImage
    \/ FindOrCreateRepoId
    \/ CreateSong
    \/ \E h \in Handlers, cb \in AudioCallbacks : HandleSunoCallback(h, cb)
    \/ \E h \in Handlers : DownloadTrack(h)
    \/ \E h \in Handlers : FindSong(h)
    \/ \E h \in Handlers : UpdateSong(h)
    \/ \E h \in Handlers : CreateAudioFile(h)
    \/ \E h \in Handlers, cb \in LyricsCallbacks : HandleSunoCallbackLyrics(h, cb)
    \/ \E h \in Handlers : FindSongForLyrics(h)
    \/ \E h \in Handlers : UpdateLyrics(h)
    \/ Tick

SpecCallback == Init /\ [][NextCallback]_vars

\* Songs are submitted, callbacks are handled and the status of a task is
\* asked for.
NextSong ==
    \/ NextCallback
    \/ CheckSongStatus("T1")
    \/ GetTaskDetails

SpecSong == Init /\ [][NextSong]_vars

\* Songs are submitted and their tasks are polled while the music service
\* works on them.
NextPoll ==
    \/ SendToSuno(TRUE)
    \/ GenerateAudio
    \/ GenerateCoverImage
    \/ FindOrCreateRepoId
    \/ CreateSong
    \/ \E t \in TaskIds : CheckSongStatus(t)
    \/ \E t \in TaskIds, m \in MaxAttemptsOptions : WaitForSongCompletion(t, m)
    \/ GetTaskDetails
    \/ UpstreamProgress

SpecPoll == Init /\ [][NextPoll]_vars

\* A task is submitted and its status is asked for, by checkSongStatus and by
\* callers of getTaskDetails and getLyricsTaskDetails, while time goes by.
NextDetails ==
    \/ SendToSuno(TRUE)
    \/ GenerateAudio
    \/ \E t \in TaskIds : CheckSongStatus(t)
    \/ GetTaskDetails
    \/ \E t \in TaskIds, options \in TaskOptions :
          QueryRecordInfo("getTaskDetails", t, options)
    \/ \E options \in TaskOptions : QueryRecordInfo("getLyricsTaskDetails", "L1", options)
    \/ UpstreamProgress
    \/ Tick

SpecDetails == Init /\ [][NextDetails]_vars

\* A task is submitted and waited for, with few attempts or none allowed.
NextWait ==
    \/ SendToSuno(TRUE)
    \/ GenerateAudio
    \/ GenerateCoverImage
    \/ FindOrCreateRepoId
    \/ CreateSong
    \/ \E t \in TaskIds, m \in FewAttemptsOptions : WaitForSongCompletion(t, m)
    \/ \E t \in TaskIds, m \in FewAttemptsOptions : WaitForTaskCompletion(t, m)
    \/ GetTaskDetails
    \/ UpstreamProgress

SpecWait == Init /\ [][NextWait]_vars

\* Songs with and without lyrics are submitted.
NextSubmit ==
    \/ \E instrumental \in BOOLEAN : SendToSuno(instrumental)
    \/ GenerateLyrics
    \/ GenerateAudio
    \/ GenerateCoverImage
    \/ FindOrCreateRepoId
    \/ CreateSong
    \/ Tick

SpecSubmit == Init /\ [][NextSubmit]_vars

-----------------------------------------------------------------------------
(* AIService.adjustContent; a text is represented by its length *)

approxCharsPerToken == 4

maxIterations == 100

\* The length below which system and prompt are not shortened.
MinLength == 50

CeilDiv(a, b) == (a + b - 1) \div b

\* promptTokensEstimate of openai-chat-tokens: three tokens for the reply,
\* and for every message three tokens, its role and its content; the
\* tokens of a content are taken to be a quarter of its characters.
ContentTokens(length) == CeilDiv(length, approxCharsPerToken)

MessageTokens(length) == 3 + 1 + ContentTokens(length)

RECURSIVE HistoryTokens(_)
HistoryTokens(history) ==
    IF history = <<>> THEN 0
    ELSE MessageTokens(Head(history)) + HistoryTokens(Tail(history))

EstimateTokens(system, history, prompt) ==
    3 + MessageTokens(system) + HistoryTokens(history) + MessageTokens(prompt)

Min(a, b) == IF a < b THEN a ELSE b

\* charsToRemove for an overage: Math.ceil(tokensOver * 0.5) tokens.
CharsToRemove(tokensOver) == CeilDiv(tokensOver, 2) * approxCharsPerToken

SystemLengths == {0, 60, 400}

PromptLengths == {20, 80, 400}

ContextWindows == {20, 60, 150}

Uniform(n, length) == [i \in 1..n |-> length]

\* A few short histories, and histories about as long as the loop may run.
Histories ==
    {<<>>, <<8>>, <<8, 200>>, <<200, 8, 40>>} \cup
    {Uniform(n, 8) : n \in (maxIterations - 1)..(maxIterations + 1)}

\* The entry of adjustContent, up to the loop.
AdjustContent(system, history, prompt, contextWindow) ==
    /\ adjust.pc \in {"idle", "done"}
    /\ adjust' = [pc |-> "loop", system |-> system, history |-> history,
                  prompt |-> prompt, contextWindow |-> contextWindow,
                  currentTokens |-> EstimateTokens(system, history, prompt),
                  iteration |-> 0, trimmed |-> None,
                  given |-> [system |-> system, history |-> history, prompt |-> prompt],
                  kept |-> [system |-> <<0, system>>, prompt |-> <<0, prompt>>,
                            shifted |-> 0]]
    /\ UNCHANGED <<chunker, run, collection>>
    /\ UNCHANGED laterVars
    /\ UNCHANGED <<apiCalls, apiLimits, now, liveOk, calls>>
    /\ UNCHANGED gatewayLocals
    /\ UNCHANGED songVars

\* SliceOffEnd that cuts the characters off the beginning: text.slice(trimLength)
SliceOffBeginning(text, trimLength) == <<text[1] + trimLength, text[2]>>

\* text.slice(0, -trimLength) of the text held from text[1] up to text[2]:
\* an index of -0 is the index 0, and nothing is left.
SliceOffEnd(text, trimLength) ==
    IF trimLength = 0 THEN <<text[1], text[1]>>
    ELSE <<text[1], text[2] - trimLength>>

TextLength(text) == text[2] - text[1]

\* history.shift()
HistoryShifted(a) ==
    [a EXCEPT !.history = Tail(@), !.kept.shifted = @ + 1, !.trimmed = "history"]

\* system = system.slice(0, -trimLength)
SystemSliced(a, trimLength) ==
    LET system == SliceOffEnd(a.kept.system, trimLength) IN
    [a EXCEPT !.system = TextLength(system), !.kept.system = system,
              !.trimmed = "system"]

\* prompt = prompt.slice(0, -trimLength)
PromptSliced(a, trimLength) ==
    LET prompt == SliceOffEnd(a.kept.prompt, trimLength) IN
    [a EXCEPT !.prompt = TextLength(prompt), !.kept.prompt = prompt,
              !.trimmed = "prompt"]

\* Trimmed with system shortened before the history is dropped.
TrimmedSystemFirst(a) ==
    LET charsToRemove == CharsToRemove(a.currentTokens - a.contextWindow) IN
    IF a.system > MinLength
    THEN SystemSliced(a, Min(charsToRemove, a.system - MinLength))
    ELSE IF Len(a.history) > 1
    THEN HistoryShifted(a)
    ELSE IF a.prompt > MinLength
    THEN PromptSliced(a, Min(charsToRemove, a.prompt - MinLength))
    ELSE [a EXCEPT !.trimmed = None, !.pc = "done"]

\* What one iteration trims: the oldest history entry, the end of system,
\* the end of prompt, or nothing.
Trimmed(a) ==
    LET charsToRemove == CharsToRemove(a.currentTokens - a.contextWindow) IN
    IF Len(a.history) > 1
    THEN HistoryShifted(a)
    ELSE IF a.system > MinLength
    THEN SystemSliced(a, Min(charsToRemove, a.system - MinLength))
    ELSE IF a.prompt > MinLength
    THEN PromptSliced(a, Min(charsToRemove, a.prompt - MinLength))
    ELSE [a EXCEPT !.trimmed = None, !.pc = "done"]

\* The test of the while loop and, when it passes, one iteration.
TrimIteration ==
    /\ adjust.pc = "loop"
    /\ adjust' =
         IF adjust.currentTokens <= adjust.contextWindow
         THEN [adjust EXCEPT !.pc = "done", !.trimmed = None]
         ELSE IF adjust.iteration + 1 > maxIterations
         THEN [adjust EXCEPT !.pc = "done", !.trimmed = None, !.iteration = @ + 1]
         ELSE LET a == Trimmed(adjust) IN
              [a EXCEPT !.iteration = @ + 1,
                        !.currentTokens = EstimateTokens(a.system, a.history, a.prompt)]
    /\ UNCHANGED <<chunker, run, collection>>
    /\ UNCHANGED laterVars
    /\ UNCHANGED <<apiCalls, apiLimits, now, liveOk, calls>>
    /\ UNCHANGED gatewayLocals
    /\ UNCHANGED songVars

NextAdjust ==
    \/ \E system \in SystemLengths, history \in Histories, prompt \in PromptLengths,
          contextWindow \in ContextWindows :
            AdjustContent(system, history, prompt, contextWindow)
    \/ TrimIteration

SpecAdjust == Init /\ [][NextAdjust]_vars

-----------------------------------------------------------------------------
(* KaraokeService.chunkTextByTokens; a text is the sequence of its characters *)

MaxTextLen == 9

Characters == {"a", "b"}

RECURSIVE TextsOfLength(_)
TextsOfLength(n) ==
    IF n = 0 THEN {<<>>}
    ELSE {Append(t, c) : t \in TextsOfLength(n - 1), c \in Characters}

Texts == UNION {TextsOfLength(n) : n \in 0..MaxTextLen}

MaxTokensOptions == {1, 2}

MaxChars(maxTokens) == maxTokens * approxCharsPerToken

\* text.slice(startIndex, endIndex)
Slice(text, startIndex, endIndex) == SubSeq(text, startIndex + 1, endIndex)

EndIndex(c) == Min(c.startIndex + MaxChars(c.maxTokens), Len(c.text))

\* Chunk with the slice begun one character early.
ChunkFromOneBefore(c) ==
    Slice(c.text, IF c.startIndex = 0 THEN 0 ELSE c.startIndex - 1, EndIndex(c))

\* The chunk one round of the loop pushes.
Chunk(c) == Slice(c.text, c.startIndex, EndIndex(c))

\* The entry of chunkTextByTokens, up to the loop.
ChunkTextByTokens(text, maxTokens) ==
    /\ chunker.pc = "idle"
    /\ chunker' = [pc |-> "loop", text |-> text, maxTokens |-> maxTokens,
                   startIndex |-> 0, chunks |-> <<>>, calls |-> 1, previous |-> <<>>]
    /\ UNCHANGED <<adjust, run, collection>>
    /\ UNCHANGED laterVars
    /\ UNCHANGED <<apiCalls, apiLimits, now, liveOk, calls>>
    /\ UNCHANGED gatewayLocals
    /\ UNCHANGED songVars

\* The caller calls chunkTextByTokens once more with the same arguments,
\* holding what the first call returned.
ChunkAgain ==
    /\ chunker.pc = "done"
    /\ chunker.calls = 1
    /\ chunker' = [chunker EXCEPT !.pc = "loop", !.startIndex = 0, !.chunks = <<>>,
                                  !.calls = 2, !.previous = chunker.chunks]
    /\ UNCHANGED <<adjust, run, collection>>
    /\ UNCHANGED laterVars
    /\ UNCHANGED <<apiCalls, apiLimits, now, liveOk, calls>>
    /\ UNCHANGED gatewayLocals
    /\ UNCHANGED songVars

\* The test of the while loop and, when it passes, one round.
ChunkRound ==
    /\ chunker.pc = "loop"
    /\ chunker' =
         IF chunker.startIndex < Len(chunker.text)
         THEN [chunker EXCEPT !.chunks = Append(@, Chunk(chunker)),
                              !.startIndex = EndIndex(chunker)]
         ELSE [chunker EXCEPT !.pc = "done"]
    /\ UNCHANGED <<adjust, run, collection>>
    /\ UNCHANGED laterVars
    /\ UNCHANGED <<apiCalls, apiLimits, now, liveOk, calls>>
    /\ UNCHANGED gatewayLocals
    /\ UNCHANGED songVars

NextChunk ==
    \/ \E text \in Texts, maxTokens \in MaxTokensOptions :
          ChunkTextByTokens(text, maxTokens)
    \/ ChunkAgain
    \/ ChunkRound

SpecChunk == Init /\ [][NextChunk]_vars

-----------------------------------------------------------------------------
(* generateSongFromRepo, steps 2 to 10.  Each await of the code is a step  *)
(* whose call returns or throws; run.log lists the calls made outside the  *)
(* process.  A commit is its sha, its text is given by its length, and a    *)
(* chunk of it by the indices it was sliced at.                            *)

\* What the commit fetch of the requested window may return.
CommitLists == {<<>>, <<"c1">>, <<"c1", "c2">>}

\* doc.text.length of the document made of each commit.
CommitTextLength == [c1 |-> 5000, c2 |-> 12001]

\* chunkTextByTokens(doc.text, 3000)
RunMaxTokens == 3000

CallOutcomes == {TRUE, FALSE}

\* What the language model answers to the lyrics prompt: lyrics, or a JSON
\* object without lyrics.
LyricsAnswers == {"l1", ""}

\* The slices chunkTextByTokens makes of a text of this length, from startIndex.
RECURSIVE SlicesFrom(_, _, _)
SlicesFrom(length, maxChars, startIndex) ==
    IF startIndex < length
    THEN LET endIndex == Min(startIndex + maxChars, length) IN
         <<<<startIndex, endIndex>>>> \o SlicesFrom(length, maxChars, endIndex)
    ELSE <<>>

ChunksOfCommit(sha) == SlicesFrom(CommitTextLength[sha], MaxChars(RunMaxTokens), 0)

\* ChunkId with the place in the collection instead of the chunk index.
ChunkIdFromCount(sha, i) == <<sha, "__chunk_", Len(collection)>>

\* `${ doc.id }__chunk_${ i }`
ChunkId(sha, i) == <<sha, "__chunk_", i>>

\* ChromaService.upsertDocuments(collection, [chunk], [chunkId], ...): the
\* document of that id is replaced, or the document is added.
UpsertDocuments(docs, doc) ==
    IF \E k \in DOMAIN docs : docs[k].id = doc.id
    THEN [k \in DOMAIN docs |-> IF docs[k].id = doc.id THEN doc ELSE docs[k]]
    ELSE Append(docs, doc)

RunDone(r, res) ==
    [r EXCEPT !.pc = "done", !.i = 0, !.j = 0, !.result = res]

RunFailed(r, message) ==
    RunDone(r, [kind |-> "error",
                message |-> <<"Error generating song from repository: ">> \o message])

Logged(r, call) == [r EXCEPT !.log = Append(@, call)]

RunFrame ==
    /\ UNCHANGED <<adjust, chunker>>
    /\ UNCHANGED laterVars
    /\ UNCHANGED <<apiCalls, apiLimits, now, liveOk>>
    /\ UNCHANGED gatewayLocals
    /\ UNCHANGED <<songs, audioFiles, attachments, repositories, upstream, handler,
                   waiter>>

\* The entry of generateSongFromRepo with valid options, up to the fetch.
GenerateSongFromRepo(instrumental) ==
    /\ \/ run.pc \in {"idle", "done"} /\ submit.pc \in {"idle", "done"}
       \/ run.pc = "suno" /\ submit.pc = "done"
    /\ calls < MaxCalls
    /\ calls' = calls + 1
    /\ run' = [NoRun EXCEPT !.pc = "fetch", !.instrumental = instrumental]
    /\ UNCHANGED <<submit, collection>>
    /\ RunFrame

\* AfterFetch without the test of commits.length.
AfterFetchUnchecked(r, ok, commits) ==
    IF ~ok THEN RunFailed(r, <<"Error fetching commits">>)
    ELSE [r EXCEPT !.pc = "format", !.commits = commits]

\* 2. Fetch commits, and the test that there is one.
AfterFetch(r, ok, commits) ==
    IF ~ok THEN RunFailed(r, <<"Error fetching commits">>)
    ELSE IF Len(commits) = 0
    THEN RunFailed([r EXCEPT !.commits = commits],
                   <<"No commits found in the specified time range">>)
    ELSE [r EXCEPT !.pc = "format", !.commits = commits]

FetchCommits ==
    /\ run.pc = "fetch"
    /\ \E ok \in CallOutcomes, commits \in CommitLists :
          run' = AfterFetch([Logged(run, "github:commits") EXCEPT
                                 !.found = IF ok THEN Len(commits) ELSE -1],
                            ok, commits)
    /\ UNCHANGED <<calls, submit, collection>>
    /\ RunFrame

\* 3. formatCommitsForAnalysis, and 4. summarizeCommits, which waits for nothing.
FormatCommits ==
    /\ run.pc = "format"
    /\ \E ok \in CallOutcomes :
          run' = IF ok THEN [Logged(run, "github:details") EXCEPT !.pc = "collection"]
                 ELSE RunFailed(Logged(run, "github:details"),
                                <<"Error formatting commits">>)
    /\ UNCHANGED <<calls, submit, collection>>
    /\ RunFrame

\* AfterCollection that goes on to the search query without embedding.
AfterCollectionSkipsEmbedding(r) == [r EXCEPT !.pc = "searchQuery"]

\* After the collection is there the loops over commitDocs and chunks begin.
AfterCollection(r) ==
    IF Len(r.commits) = 0 THEN [r EXCEPT !.pc = "searchQuery"]
    ELSE [r EXCEPT !.pc = "embed", !.i = 1, !.j = 1]

\* 5. ChromaService.createOrGetCollectionUsingEmbeddings
CreateOrGetCollection ==
    /\ run.pc = "collection"
    /\ \E ok \in CallOutcomes :
          run' = IF ok THEN AfterCollection(Logged(run, "chroma:collection"))
                 ELSE RunFailed(Logged(run, "chroma:collection"),
                                <<"Error creating collection">>)
    /\ UNCHANGED <<calls, submit, collection>>
    /\ RunFrame

\* 5a. ChromaService.generateEmbeddings([chunk])
GenerateEmbeddings ==
    /\ run.pc = "embed"
    /\ \E ok \in CallOutcomes :
          run' = IF ok THEN [Logged(run, "chroma:embed") EXCEPT !.pc = "upsert"]
                 ELSE RunFailed(Logged(run, "chroma:embed"),
                                <<"Error generating embeddings">>)
    /\ UNCHANGED <<calls, submit, collection>>
    /\ RunFrame

\* 5a. ChromaService.upsertDocuments of chunk j of commit i, and the next
\* round of the loops.
UpsertChunk ==
    /\ run.pc = "upsert"
    /\ LET sha == run.commits[run.i]
           chunks == ChunksOfCommit(sha)
           doc == [id |-> ChunkId(sha, run.j - 1),
                   document |-> <<sha>> \o chunks[run.j],
                   metadata |-> sha]
           logged == Logged(run, "chroma:upsert")
       IN  \E ok \in CallOutcomes :
             IF ok
             THEN /\ collection' = UpsertDocuments(collection, doc)
                  /\ run' = IF run.j < Len(chunks)
                            THEN [logged EXCEPT !.pc = "embed", !.j = @ + 1]
                            ELSE IF run.i < Len(run.commits)
                            THEN [logged EXCEPT !.pc = "embed", !.i = @ + 1, !.j = 1]
                            ELSE [logged EXCEPT !.pc = "searchQuery", !.i = 0, !.j = 0]
             ELSE /\ run' = RunFailed(logged, <<"Error upserting documents">>)
                  /\ UNCHANGED collection
    /\ UNCHANGED <<calls, submit>>
    /\ RunFrame

\* 6. AIService.sendMessage for the search query.
GenerateSearchQuery ==
    /\ run.pc = "searchQuery"
    /\ \E ok \in CallOutcomes :
          run' = IF ok THEN [Logged(run, "llm:searchQuery") EXCEPT !.pc = "query"]
                 ELSE RunFailed(Logged(run, "llm:searchQuery"),
                                <<"Error processing request: ">>)
    /\ UNCHANGED <<calls, submit, collection>>
    /\ RunFrame

\* 7. ChromaService.queryCollection, and 8. the context, which waits for nothing.
QueryCollection ==
    /\ run.pc = "query"
    /\ \E ok \in CallOutcomes :
          run' = IF ok THEN [Logged(run, "chroma:query") EXCEPT !.pc = "lyrics"]
                 ELSE RunFailed(Logged(run, "chroma:query"),
                                <<"Error querying collection">>)
    /\ UNCHANGED <<calls, submit, collection>>
    /\ RunFrame

\* 9. AIService.sendMessage for the lyrics.
GenerateSongLyrics ==
    /\ run.pc = "lyrics"
    /\ \/ \E lyrics \in LyricsAnswers :
            run' = [Logged(run, "llm:lyrics") EXCEPT !.pc = "title",
                                                     !.songLyrics = lyrics]
       \/ run' = RunFailed(Logged(run, "llm:lyrics"), <<"Error processing request: ">>)
    /\ UNCHANGED <<calls, submit, collection>>
    /\ RunFrame

\* 10. AIService.sendMessage for the title; step 11 follows at once, up to
\* the request it sends to the music service: generateLyrics refuses an
\* empty prompt before it sends anything.
GenerateSongTitle ==
    /\ run.pc = "title"
    /\ \E ok \in CallOutcomes :
          LET logged == Logged(run, "llm:title") IN
          IF ~ok
          THEN /\ run' = RunFailed(logged, <<"Error processing request: ">>)
               /\ UNCHANGED submit
          ELSE IF ~run.instrumental /\ run.songLyrics = ""
          THEN /\ run' = RunFailed([logged EXCEPT !.songTitle = "t1"],
                                   <<"Missing parameter: prompt">>)
               /\ UNCHANGED submit
          ELSE /\ run' = [logged EXCEPT !.pc = "suno", !.songTitle = "t1"]
               /\ submit' = [pc |-> IF run.instrumental THEN "audio" ELSE "lyrics",
                             instrumental |-> run.instrumental, sunoTaskId |-> Null,
                             result |-> NoSubmitResult]
    /\ UNCHANGED <<calls, collection>>
    /\ RunFrame

\* Songs are generated from repositories, one request after the other.
NextRun ==
    \/ \E instrumental \in BOOLEAN : GenerateSongFromRepo(instrumental)
    \/ FetchCommits
    \/ FormatCommits
    \/ CreateOrGetCollection
    \/ GenerateEmbeddings
    \/ UpsertChunk
    \/ GenerateSearchQuery
    \/ QueryCollection
    \/ GenerateSongLyrics
    \/ GenerateSongTitle
    \/ GenerateLyrics
    \/ GenerateAudio
    \/ GenerateCoverImage
    \/ FindOrCreateRepoId
    \/ CreateSong

SpecRun == Init /\ [][NextRun]_vars

-----------------------------------------------------------------------------
(* The claims *)

RowIsFresh(row) ==
    /\ row # NoRow
    /\ row.is_success = TRUE
    /\ (row.expires_at = NullDate \/ row.expires_at > now)

RowsFor(rows, hash) == {r \in rows : r.request_hash = hash}

DefaultLimit(service) == IF service = "github" THEN 5000 ELSE 1000

\* C1: a cached call made without disableCache that finds a record with
\* is_success = true and expires_at null or later than now returns the
\* stored response, makes no live request, writes no ApiCall record and
\* leaves ApiLimit unchanged.
C1_FreshEntryIsServed ==
    [][\A p \in Procs :
         (/\ pc[p] = "lookup"
          /\ pc'[p] # "lookup"
          /\ RowIsFresh(FindUnique(requestHash[p])))
         => /\ pc'[p] = "done"
            /\ result'[p] = [kind |-> "cache", message |-> <<>>,
                             data |-> FindUnique(requestHash[p]).response]
            /\ apiCalls' = apiCalls
            /\ apiLimits' = apiLimits
            /\ liveOk' = liveOk]_vars

\* A call was answered from a record that never expires.
C1_Witness ==
    \E p \in Procs, r \in apiCalls :
        /\ pc[p] = "done"
        /\ result[p].kind = "cache"
        /\ r.is_success
        /\ r.expires_at = NullDate
        /\ result[p].data = r.response

\* C2: two identical getCommits requests one after the other within the
\* 24 hours, starting from an empty cache: the first makes exactly one live
\* request, the second returns the first one's response without a live
\* request, and requests_used of github has grown by exactly 1.
C2_RepeatedGetCommits ==
    (/\ calls = 2
     /\ pc["p1"] = "done"
     /\ pc["p2"] = "done"
     /\ result["p1"].kind = "live"
     /\ now < DEFAULT_CACHE_HOURS)
    => /\ result["p2"] = [kind |-> "cache", data |-> result["p1"].data, message |-> <<>>]
       /\ liveOk["github"] = 1
       /\ Used("github") = 1

C2_Witness ==
    /\ calls = 2
    /\ pc["p1"] = "done"
    /\ pc["p2"] = "done"
    /\ result["p1"].kind = "live"
    /\ result["p2"].kind = "cache"
    /\ now < DEFAULT_CACHE_HOURS

\* C3: on a cache miss whose live request succeeds, the record of the
\* fingerprint is upserted with the new response, is_success = true,
\* error_message cleared and expires_at = now + cacheHours (null without a
\* TTL), and requests_used of the service grows by exactly 1, the ApiLimit
\* row being created with the default limit and requests_used = 1.
C3_SuccessIsRecorded ==
    [][\A p \in Procs :
         /\ (pc[p] = "http" /\ pc'[p] # "http" /\ outcome'[p].ok)
            => pc'[p] = "store"
         /\ (pc[p] = "store" /\ pc'[p] # "store")
            => /\ pc'[p] = "limit"
               /\ Cardinality(RowsFor(apiCalls', requestHash[p])) = 1
               /\ LET row == RowIn(apiCalls', requestHash[p]) IN
                    /\ row.response = outcome[p].data
                    /\ row.is_success = TRUE
                    /\ row.error_message = <<>>
                    /\ row.expires_at =
                         (IF req[p].cacheHours = 0 THEN NullDate
                          ELSE now + req[p].cacheHours)
         /\ (pc[p] = "limit" /\ pc'[p] # "limit")
            => /\ pc'[p] = "done"
               /\ apiLimits'[req[p].service] # NoLimit
               /\ apiLimits'[req[p].service].requests_used = Used(req[p].service) + 1
               /\ apiLimits[req[p].service] = NoLimit
                  => apiLimits'[req[p].service].requests_limit
                         = DefaultLimit(req[p].service)]_vars

\* A request stored its response over a failed record, and the counter exists.
C3_Witness ==
    \E p \in Procs :
        /\ pc[p] = "limit"
        /\ seen[p] = "failed"
        /\ RowIsFresh(FindUnique(requestHash[p]))
        /\ Used(req[p].service) >= 1

\* C4: when the record of a fingerprint has is_success = false, the next
\* cached call for it makes a live request, whatever expires_at holds.
C4_FailedEntryIsRetried ==
    [][\A p \in Procs :
         /\ (/\ pc[p] = "lookup"
             /\ pc'[p] # "lookup"
             /\ FindUnique(requestHash[p]) # NoRow
             /\ FindUnique(requestHash[p]).is_success = FALSE)
            => pc'[p] = "http" /\ seen'[p] = "failed"
         /\ (seen[p] = "failed" /\ pc'[p] # pc[p])
            => /\ pc[p] \in {"http", "store", "limit", "catch"}
               /\ pc[p] = "http" => outcome'[p] \in HttpOutcomes]_vars

\* A live request was made for a failed record whose expires_at, left by an
\* earlier success, is still in the future.
C4_Witness ==
    \E p \in Procs :
        /\ seen[p] = "failed"
        /\ pc[p] \in {"store", "catch"}
        /\ outcome[p] \in HttpOutcomes
        /\ FindUnique(requestHash[p]).is_success = FALSE
        /\ FindUnique(requestHash[p]).expires_at > now

\* C5: a failed live request never increments requests_used: the counter
\* of a service never exceeds the number of its live requests that succeeded.
C5_FailuresAreNotCounted ==
    \A s \in Services : Used(s) <= liveOk[s]

\* A call failed after another was counted.
C5_Witness ==
    \E p \in Procs, r \in apiCalls :
        /\ pc[p] = "done"
        /\ result[p].kind = "error"
        /\ r.is_success = FALSE
        /\ liveOk[r.service] = 1
        /\ Used(r.service) = 1

\* C6 as first stated: a record of a failed request has no expires_at set.
C6_FailedEntryHasNoExpiry ==
    \A r \in apiCalls : r.is_success = FALSE => r.expires_at = NullDate

\* C6, amended: after a cached call whose live request fails, the record of
\* the fingerprint has is_success = false and carries the error message and
\* the status code; the write leaves expires_at as it was (null in a record
\* it creates, the earlier value in a record it updates); the error is
\* thrown to the caller.
C6_FailureIsRecorded ==
    [][\A p \in Procs :
         (pc[p] = "catch" /\ pc'[p] # "catch")
         => /\ pc'[p] = "done"
            /\ result'[p].kind = "error"
            /\ \E i \in 1..Len(result'[p].message) :
                 SubSeq(result'[p].message, i, Len(result'[p].message)) = outcome[p].message
            /\ Cardinality(RowsFor(apiCalls', requestHash[p])) = 1
            /\ LET old == FindUnique(requestHash[p])
                   row == RowIn(apiCalls', requestHash[p])
               IN  /\ row.is_success = FALSE
                   /\ row.error_message = outcome[p].message
                   /\ row.status_code =
                        (IF outcome[p].status # 0 THEN outcome[p].status ELSE 500)
                   /\ row.expires_at =
                        (IF old = NoRow THEN NullDate ELSE old.expires_at)]_vars

\* A failure was recorded over an earlier success, whose expires_at stays.
C6_Witness ==
    \E p \in Procs, r \in apiCalls :
        /\ pc[p] = "done"
        /\ result[p].kind = "error"
        /\ r.is_success = FALSE
        /\ r.expires_at # NullDate

\* C7: an error of the ApiCall upsert does not fail the call: a call whose
\* live request succeeded never enters the catch block, and no caller is
\* thrown a persistence error.
C7_PersistenceErrorIsSwallowed ==
    \A p \in Procs :
        /\ outcome[p].ok => pc[p] # "catch"
        /\ (pc[p] = "done" /\ result[p].kind = "error")
           => \A i \in 1..Len(result[p].message) :
                result[p].message[i] # DbError.message[1]

\* C8: two parameter objects with the same keys and values, in whatever
\* order they were inserted, get the same request hash.
C8_HashIgnoresKeyOrder ==
    \A p, q \in Procs :
        (/\ requestHash[p] # NoHash
         /\ requestHash[q] # NoHash
         /\ req[p].service = req[q].service
         /\ req[p].method = req[q].method
         /\ req[p].endpoint = req[q].endpoint
         /\ SameObject(req[p].params, req[q].params))
        => requestHash[p] = requestHash[q]

\* C9: there is at most one ApiCall record per request hash, every write
\* for a hash updates its record in place, and no record is ever deleted.
C9_OneRecordPerHash ==
    /\ [](\A r1, r2 \in apiCalls : r1.request_hash = r2.request_hash => r1 = r2)
    /\ [][\A r \in apiCalls :
            \E r2 \in apiCalls' : r2.id = r.id /\ r2.request_hash = r.request_hash]_vars

\* Two calls in flight have both written the one record of their hash.
C9_Witness ==
    \E p, q \in Procs :
        /\ p # q
        /\ requestHash[p] = requestHash[q]
        /\ pc[p] = "limit"
        /\ pc[q] = "limit"
        /\ Cardinality(RowsFor(apiCalls, requestHash[p])) = 1

\* C10: two concurrent cached calls with the same hash that both found no
\* record both make a live request and both upsert; each upsert overwrites
\* the record, so the record left is that of the upsert that ran last, and
\* each caller is returned the response of its own live request.
C10_SecondWriteWins ==
    [][\A p, q \in Procs :
         (/\ p # q
          /\ requestHash[p] = requestHash[q]
          /\ seen[p] = "absent"
          /\ seen[q] = "absent")
         => /\ pc[p] \in {"http", "store", "limit", "catch"}
            /\ (pc[p] = "http" /\ pc'[p] # "http") => outcome'[p] \in HttpOutcomes
            /\ (pc[p] = "store" /\ pc'[p] # "store")
               => /\ RowIn(apiCalls', requestHash[p]).response = outcome[p].data
                  /\ Cardinality(RowsFor(apiCalls', requestHash[p])) = 1
            /\ (pc[p] = "limit" /\ pc'[p] # "limit")
               => result'[p] = [kind |-> "live", data |-> outcome[p].data,
                                message |-> <<>>]]_vars

\* Both calls have stored, with different responses; the record holds one.
C10_Witness ==
    \E p, q \in Procs :
        /\ p # q
        /\ requestHash[p] = requestHash[q]
        /\ seen[p] = "absent"
        /\ seen[q] = "absent"
        /\ pc[p] = "limit"
        /\ pc[q] = "limit"
        /\ outcome[p].data # outcome[q].data
        /\ FindUnique(requestHash[p]).response = outcome[q].data

\* C11: requests_used grows by one per counted live call and is reset
\* lazily: a counter write that happens once requests_reset has passed
\* starts the new window (the counter holds at most this one call) instead
\* of adding to the count of the window that ended.
C11_CounterIsResetLazily ==
    [][\A s \in Services :
         (apiLimits[s] # NoLimit /\ apiLimits'[s] # apiLimits[s])
         => IF now >= apiLimits[s].requests_reset
            THEN apiLimits'[s].requests_used <= 1
            ELSE apiLimits'[s].requests_used = apiLimits[s].requests_used + 1]_vars

\* C12: rate-limit tracking is accounting only: a call that missed the
\* cache always goes on to its live request, and the live request can
\* always be made, whatever requests_used, requests_limit and is_active
\* hold, requests_used at or past requests_limit included.
C12_LimitsDoNotBlock ==
    /\ [](\A p \in Procs : pc[p] = "http" => ENABLED AxiosRequest(p))
    /\ [][\A p \in Procs :
            /\ (/\ pc[p] = "lookup"
                /\ pc'[p] # "lookup"
                /\ ~RowIsFresh(FindUnique(requestHash[p])))
               => pc'[p] = "http"
            /\ (pc[p] = "http" /\ pc'[p] # "http")
               => outcome'[p] \in HttpOutcomes]_vars

\* A live request was answered for a service whose counter is at or past
\* its limit and whose row is switched off.
C12_Witness ==
    \E p \in Procs :
        /\ pc[p] = "store"
        /\ seen[p] \in {"absent", "failed", "expired"}
        /\ outcome[p].ok
        /\ apiLimits[req[p].service] # NoLimit
        /\ apiLimits[req[p].service].requests_used
             >= apiLimits[req[p].service].requests_limit
        /\ ~apiLimits[req[p].service].is_active

Terminal(song) == song.status \in {"completed", "failed"}

\* The Song a handler has looked up, once it has.
FoundBy(h) == handler[h].songRecord

\* C13: once the Song of a task id is completed or failed, a later audio
\* callback or poll for that task id leaves its status and its AudioFile
\* records as they are (a Song has no field for an error).  A callback is
\* later when its own lookup found the Song completed or failed.
C13_TerminalSongIsFrozen ==
    [][\A s \in songs :
         Terminal(s)
         => /\ \A h \in Handlers :
                 (/\ FoundBy(h) # NoSong
                  /\ FoundBy(h).id = s.id
                  /\ Terminal(FoundBy(h))
                  /\ handler'[h] # handler[h])
                 => /\ SongIn(songs', s.suno_task_id).status = s.status
                    /\ AudioFilesOf(audioFiles', s) = AudioFilesOf(audioFiles, s)
            /\ (waiter.pc = "poll" /\ waiter.taskId = s.suno_task_id /\ waiter' # waiter)
               => /\ SongIn(songs', s.suno_task_id).status = s.status
                  /\ AudioFilesOf(audioFiles', s) = AudioFilesOf(audioFiles, s)]_vars

\* Whether the callback a handler is working on came after the Song of its
\* task id was completed: by the table before the handler's own lookup, by
\* what the lookup returned after it.
DeliveredAfterCompletion(h) ==
    IF handler[h].pc \in {"download", "find"}
    THEN /\ SongOf(handler[h].cb.task_id) # NoSong
         /\ SongOf(handler[h].cb.task_id).status = "completed"
    ELSE /\ FoundBy(h) # NoSong
         /\ FoundBy(h).status = "completed"

\* C14: a 'complete' callback delivered for a task id whose Song an
\* earlier delivery has completed is a no-op: completed_at is not written
\* again, no artifact is stored again and no AudioFile record is added.
C14_SecondDeliveryIsNoOp ==
    [][\A h \in Handlers :
         (/\ handler[h].kind = "audio"
          /\ handler[h].cb.callbackType = "complete"
          /\ DeliveredAfterCompletion(h)
          /\ handler'[h] # handler[h])
         => /\ songs' = songs
            /\ attachments' = attachments
            /\ audioFiles' = audioFiles]_vars

\* C15: an audio or lyrics callback whose task id matches no Song never
\* creates a Song: no step of its handler changes the table, from the
\* arrival of the callback to its answer, and the lookup that finds no Song
\* ends the handler with a normal answer.
C15_UnknownTaskCreatesNoSong ==
    [][\A h \in Handlers :
         handler'[h] # handler[h]
         => /\ {s.id : s \in songs'} = {s.id : s \in songs}
            /\ handler[h].pc \in {"idle", "done"} => songs' = songs
            /\ (/\ handler[h].pc \notin {"idle", "done"}
                /\ SongOf(handler[h].cb.task_id) = NoSong)
               => songs' = songs
            /\ (/\ handler[h].pc \in {"find", "lfind"}
                /\ SongOf(handler[h].cb.task_id) = NoSong)
               => /\ handler'[h].pc = "done"
                  /\ handler'[h].result.kind = "ok"]_vars

\* An audio callback that carried tracks was answered for a task id that
\* has no Song, while another task id has one.
C15_Witness ==
    \E h \in Handlers :
        /\ handler[h].pc = "done"
        /\ handler[h].result.kind = "ok"
        /\ handler[h].result.doAttachments # <<>>
        /\ handler[h].result.taskId \in TaskIds
        /\ SongOf(handler[h].result.taskId) = NoSong
        /\ songs # {}

\* C16: artifacts are fetched and stored only for a task that is known and
\* completing, and every artifact a callback has stored is linked to the
\* Song of its task id by an AudioFile record once the callback is
\* answered; a callback for an unknown task id stores nothing.
C16_ArtifactsOnlyForKnownCompleting ==
    /\ [][\A h \in Handlers :
            (handler'[h] # handler[h] /\ attachments' # attachments)
            => /\ SongOf(handler[h].cb.task_id) # NoSong
               /\ handler[h].cb.callbackType = "complete"]_vars
    /\ [](\A h \in Handlers :
            (handler[h].pc = "done" /\ handler[h].result.kind = "ok")
            => \A k \in DOMAIN handler[h].result.doAttachments :
                 \E f \in audioFiles :
                    /\ f.attachment_id = handler[h].result.doAttachments[k]
                    /\ f.song_id = SongOf(handler[h].result.taskId).id)

\* The Song a handler is about: the row of the table before the handler's
\* lookup has answered, what the lookup returned after it.
SongKnownTo(h) ==
    IF handler[h].pc = "find" THEN SongOf(handler[h].cb.task_id) ELSE FoundBy(h)

\* C17: when the handler of an audio callback for a known Song that is
\* neither completed nor failed answers, a callback marked 'error' has left
\* the Song failed, and a callback marked 'complete' has left it completed
\* with one AudioFile record per file saved.
C17_CallbackMovesSong ==
    [][\A h \in Handlers :
         (/\ handler[h].kind = "audio"
          /\ handler[h].pc \in {"find", "update", "files"}
          /\ handler'[h].pc = "done"
          /\ handler'[h].result.kind = "ok"
          /\ SongKnownTo(h) # NoSong
          /\ ~Terminal(SongKnownTo(h)))
         => LET after == SongIn(songs', handler[h].cb.task_id) IN
            /\ handler[h].cb.callbackType = "error" => after.status = "failed"
            /\ handler[h].cb.callbackType = "complete"
               => /\ after.status = "completed"
                  /\ \A k \in DOMAIN handler[h].savedFiles :
                       \E f \in AudioFilesOf(audioFiles', after) :
                          f.attachment_id = handler[h].savedFiles[k].attachment.id]_vars

\* C18: a poll applies the transitions of a callback: when a poll for the
\* task id of a Song that is neither completed nor failed is told SUCCESS,
\* the Song is completed, and when it is told a failure status, the Song
\* is failed.
C18_PollMovesSong ==
    [][(/\ waiter.pc = "poll"
        /\ waiter' # waiter
        /\ liveOk'["suno"] = liveOk["suno"] + 1
        /\ SongOf(waiter.taskId) # NoSong
        /\ ~Terminal(SongOf(waiter.taskId)))
       => LET after == SongIn(songs', waiter.taskId)
              status == upstream[waiter.taskId]
          IN  /\ status = "SUCCESS" => after.status = "completed"
              /\ (Includes(status, "FAILED") \/ Includes(status, "ERROR"))
                 => after.status = "failed"]_vars

\* C19: once the music service has returned a task id to
\* generateSongFromRepo there is a pending Song with that suno_task_id, so
\* the lookup of an audio callback for a task id the service has given out
\* always finds a Song.
C19_CallbackFindsItsSong ==
    [][\A h \in Handlers :
         (/\ handler[h].pc = "find"
          /\ handler'[h] # handler[h]
          /\ upstream[handler[h].cb.task_id] # None)
         => SongOf(handler[h].cb.task_id) # NoSong]_vars

\* C20: for a submitted task whose Song exists, when three polls of
\* waitForSongCompletion were told PENDING and the fourth is told SUCCESS
\* with two audio urls, the wait returns on that fourth query with status
\* SUCCESS, and the Song is completed with exactly two AudioFile records.
C20_WaitReturnsCompletedTask ==
    [][(/\ waiter.via = "waitForSongCompletion"
        /\ waiter.pc = "poll"
        /\ waiter.attempts = 3
        /\ waiter'.pc = "done"
        /\ waiter'.result.kind = "ok"
        /\ SongOf(waiter.taskId) # NoSong)
       => LET after == SongIn(songs', waiter.taskId) IN
          /\ liveOk'["suno"] = liveOk["suno"] + 1
          /\ waiter'.result.songStatus = "SUCCESS"
          /\ waiter'.result.details = <<"SUCCESS", Track1.audio_url, Track2.audio_url>>
          /\ after.status = "completed"
          /\ Cardinality(AudioFilesOf(audioFiles', after)) = 2]_vars

\* The status a query of record-info is told for a task.
PolledStatus(taskId) == IF upstream[taskId] = None THEN "UNKNOWN" ELSE upstream[taskId]

UpstreamFailure(status) == Includes(status, "FAILED") \/ Includes(status, "ERROR")

Waits == {"waitForSongCompletion", "waitForTaskCompletion"}

\* The wait failed because the music service reported status.
FailedUpstream(res, status) ==
    /\ res.kind = "error"
    /\ Len(res.message) >= 2
    /\ res.message[Len(res.message)] = status
    /\ res.message[Len(res.message) - 1] \in
         {"Song generation failed with status: ", "Task failed with status: "}

\* The wait failed because the allowed polls were used up.
TimedOut(res) ==
    /\ res.kind = "error"
    /\ res.message # <<>>
    /\ res.message[Len(res.message)] \in
         {"Song did not complete after attempts", "Task did not complete after attempts"}

\* A query of a wait that the music service answers.
AnsweredPoll ==
    /\ waiter.via \in Waits
    /\ waiter.pc = "poll"
    /\ liveOk'["suno"] = liveOk["suno"] + 1

\* C21: a poll of a wait that is told a status containing FAILED or ERROR
\* ends the wait with the upstream-failure error carrying that status, and
\* the wait ends with the timeout error only on a poll that is told a
\* status that is not final and that is the last poll allowed.
C21_FailureIsNotTimeout ==
    [][/\ AnsweredPoll /\ UpstreamFailure(PolledStatus(waiter.taskId))
          => FailedUpstream(waiter'.result, PolledStatus(waiter.taskId))
       /\ (waiter.via \in Waits /\ waiter.pc = "poll" /\ TimedOut(waiter'.result))
          => /\ AnsweredPoll
             /\ PolledStatus(waiter.taskId) \notin EndStatuses
             /\ waiter.attempts + 1 >= waiter.maxAttempts]_vars

\* C22: a wait issues at most maxAttempts status queries: every query it
\* makes is made while fewer than maxAttempts queries were made before, and
\* after a query the wait goes on, returns the SUCCESS answer or fails.
C22_AtMostMaxAttemptsQueries ==
    [][(waiter.via \in Waits /\ waiter.pc = "poll" /\ waiter' # waiter)
       => /\ waiter.attempts < waiter.maxAttempts
          /\ \/ waiter'.pc = "poll" /\ waiter'.attempts = waiter.attempts + 1
             \/ waiter'.pc = "done" /\ waiter'.result.kind = "error"
             \/ waiter'.pc = "done" /\ waiter'.result.songStatus = "SUCCESS"]_vars

\* Nothing more can be trimmed: at most one history entry, and system and
\* prompt at most MinLength characters each.
AtFloor(a) == Len(a.history) <= 1 /\ a.system <= MinLength /\ a.prompt <= MinLength

\* C23: adjustContent returns after at most maxIterations trimming
\* iterations (the iteration that finds the cap passed trims nothing), and
\* what it returns is estimated at no more than the context window or is
\* such that nothing more can be trimmed.
C23_AdjustEndsWithinBudgetOrAtFloor ==
    adjust.pc = "done"
    => /\ adjust.iteration <= maxIterations + 1
       /\ \/ EstimateTokens(adjust.system, adjust.history, adjust.prompt)
               <= adjust.contextWindow
          \/ AtFloor(adjust)

\* C24: every step of the loop of adjustContent keeps the order history,
\* system, prompt: over budget and with more than one history entry it
\* drops the oldest entry and nothing else; system is shortened only with
\* at most one history entry left; prompt is shortened only when moreover
\* system has at most MinLength characters; and currentTokens is the
\* estimate of what is left.
C24_TrimsInPriorityOrder ==
    [][adjust.pc = "loop" =>
       LET over == adjust.currentTokens > adjust.contextWindow
           inCap == adjust.iteration < maxIterations
       IN  /\ (over /\ inCap /\ Len(adjust.history) > 1)
              => /\ adjust'.history = Tail(adjust.history)
                 /\ adjust'.system = adjust.system
                 /\ adjust'.prompt = adjust.prompt
           /\ adjust'.history # adjust.history
              => over /\ Len(adjust.history) > 1
           /\ adjust'.system # adjust.system
              => over /\ Len(adjust.history) <= 1 /\ adjust'.system < adjust.system
           /\ adjust'.prompt # adjust.prompt
              => /\ over /\ Len(adjust.history) <= 1 /\ adjust.system <= MinLength
                 /\ adjust'.prompt < adjust.prompt
           /\ adjust'.currentTokens =
                EstimateTokens(adjust'.system, adjust'.history, adjust'.prompt)]_vars

\* C24 witness: a call that dropped history, shortened system and has now
\* shortened prompt.
C24_Witness ==
    /\ adjust.trimmed = "prompt"
    /\ adjust.iteration >= 3
    /\ Len(adjust.history) = 1
    /\ adjust.system = MinLength

RECURSIVE Concatenation(_)
Concatenation(chunks) ==
    IF chunks = <<>> THEN <<>>
    ELSE Head(chunks) \o Concatenation(Tail(chunks))

\* C25: chunkTextByTokens returns ceil(L / C) chunks for a text of L
\* characters and C = 4 * maxTokens; chunk i is the characters (i-1)*C+1 to
\* min(i*C, L) of the text, so the chunks are in order, do not overlap, have
\* at most C characters and concatenate to the text; and a second call with
\* the same arguments returns what the first returned.
C25_ChunksCoverTextOnce ==
    chunker.pc = "done"
    => LET L == Len(chunker.text)
           C == 4 * chunker.maxTokens
           chunks == chunker.chunks
       IN  /\ Len(chunks) = CeilDiv(L, C)
           /\ \A i \in DOMAIN chunks :
                /\ Len(chunks[i]) <= C
                /\ chunks[i] = SubSeq(chunker.text, (i - 1) * C + 1, Min(i * C, L))
           /\ Concatenation(chunks) = chunker.text
           /\ chunker.calls = 2 => chunks = chunker.previous

\* C25 witness: a second call has returned three chunks, the last one
\* shorter than the others.
C25_Witness ==
    /\ chunker.pc = "done"
    /\ chunker.calls = 2
    /\ Len(chunker.chunks) = 3
    /\ Len(chunker.chunks[3]) < Len(chunker.chunks[1])

\* The documents kept in the collection, without their ids.
Documents(docs) == {docs[k].document : k \in DOMAIN docs}

\* C26: a chunk's id is made of the sha of its commit and its index among the
\* chunks of that commit, so no chunk is kept twice in the collection, and an
\* upsert of a chunk the collection already holds, as a second run over the
\* same commits makes, leaves the collection as it was.
C26_RerunUpsertsSameIds ==
    [][/\ \A k \in DOMAIN collection' :
            LET doc == collection'[k] IN
            /\ doc.id[1] = doc.metadata
            /\ doc.id[3] + 1 \in DOMAIN ChunksOfCommit(doc.metadata)
            /\ doc.document = <<doc.metadata>> \o ChunksOfCommit(doc.metadata)[doc.id[3] + 1]
       /\ Cardinality(Documents(collection')) = Len(collection')
       /\ (/\ run.pc = "upsert"
           /\ <<run.commits[run.i]>> \o ChunksOfCommit(run.commits[run.i])[run.j]
                  \in Documents(collection))
          => collection' = collection]_vars

\* C26 witness: the collection holds the three chunks of c1 and c2 from an
\* earlier run, and this run has upserted the chunk of c1 again.
C26_Witness ==
    /\ run.pc = "embed"
    /\ run.i = 2
    /\ run.j = 1
    /\ run.log[Len(run.log)] = "chroma:upsert"
    /\ Len(collection) = 3

\* C27: when the fetch returns no commit the run ends there with the error
\* 'No commits found in the specified time range': the fetch is the only call
\* it has made, nothing is put in the collection, nothing is sent to the
\* music service and no Song is created.
C27_NoCommitsEndsTheRun ==
    [][run'.found = 0 =>
         /\ run'.pc = "done"
         /\ run'.result = [kind |-> "error",
                           message |-> <<"Error generating song from repository: ",
                                         "No commits found in the specified time range">>]
         /\ run'.log = <<"github:commits">>
         /\ collection' = collection
         /\ submit' = submit
         /\ upstream' = upstream
         /\ songs' = songs]_vars

\* C27 witness: the second run found no commit, after a first run that put
\* chunks in the collection.
C27_Witness ==
    /\ run.found = 0
    /\ run.pc = "done"
    /\ calls = 2
    /\ Len(collection) > 0

\* The place of a call in the order of the steps; the embedding and the upsert
\* of a chunk are one step.
StepRank(call) ==
    CASE call = "github:commits" -> 1
      [] call = "github:details" -> 2
      [] call = "chroma:collection" -> 3
      [] call \in {"chroma:embed", "chroma:upsert"} -> 4
      [] call = "llm:searchQuery" -> 5
      [] call = "chroma:query" -> 6
      [] call = "llm:lyrics" -> 7
      [] call = "llm:title" -> 8

RECURSIVE ChunkCount(_)
ChunkCount(commits) ==
    IF commits = <<>> THEN 0
    ELSE Len(ChunksOfCommit(Head(commits))) + ChunkCount(Tail(commits))

CallsOf(log, call) == Cardinality({k \in DOMAIN log : log[k] = call})

\* The run has sent something to the music service.
MusicSubmission ==
    /\ submit.pc \in {"lyrics", "audio"}
    /\ submit'.pc # submit.pc

\* C28: the calls of a run are made in the order of the steps, beginning with
\* the fetch and leaving no step out, a call is made only while no earlier
\* one has failed, every chunk is embedded and upserted before the search
\* query is asked for, and a request goes to the music service only after the
\* lyrics and the title calls have returned.
C28_StepsInOrder ==
    [][/\ Len(run'.log) > 0 => StepRank(run'.log[1]) = 1
       /\ \A k \in 1..(Len(run'.log) - 1) :
            /\ StepRank(run'.log[k]) <= StepRank(run'.log[k + 1])
            /\ StepRank(run'.log[k + 1]) <= StepRank(run'.log[k]) + 1
            /\ run'.log[k] = "chroma:embed" <=> run'.log[k + 1] = "chroma:upsert"
       /\ CallsOf(run'.log, "llm:searchQuery") > 0 =>
            CallsOf(run'.log, "chroma:upsert") = ChunkCount(run'.commits)
       /\ Len(run'.log) > Len(run.log) =>
            /\ run.result = NoRunResult
            /\ run'.log = Append(run.log, run'.log[Len(run'.log)])
       /\ MusicSubmission =>
            /\ run.pc = "suno"
            /\ run.log[Len(run.log)] = "llm:title"
            /\ CallsOf(run.log, "llm:lyrics") = 1
            /\ run.songTitle # Null
            /\ run.songLyrics # Null
            /\ ~run.instrumental => run.songLyrics # ""]_vars

\* C28 witness: the audio task of a song with lyrics has been submitted at the
\* end of a run over two commits.
C28_Witness ==
    /\ run.pc = "suno"
    /\ ~run.instrumental
    /\ run.commits = <<"c1", "c2">>
    /\ submit.pc = "cover"
    /\ submit.sunoTaskId # Null

\* C29: a run for an instrumental song asks the language model for no lyrics
\* and sends no lyrics to the music service.
C29_InstrumentalSkipsLyrics ==
    run.instrumental =>
        /\ CallsOf(run.log, "llm:lyrics") = 0
        /\ run.pc = "suno" => submit.pc # "lyrics"

\* C30: when the cover image fails for a song whose lyrics were written and
\* whose task the music service has taken, a Song with those lyrics and that
\* task id is on record, and the error given to the caller is the one of the
\* cover image.
C30_CoverFailureKeepsSong ==
    [][(/\ run.pc = "suno"
        /\ submit.pc = "cover"
        /\ submit'.pc = "done"
        /\ submit'.result.kind = "error")
       => /\ submit'.result.message =
               <<"Error generating song from repository: ",
                 "Error generando cover image: ">>
          /\ \E song \in songs' :
               /\ song.suno_task_id = submit.sunoTaskId
               /\ song.lyrics = run.songLyrics]_vars

\* The request a status query makes: the one of the poll in progress, or the
\* one of the call of getTaskDetails or getLyricsTaskDetails just made.
QueriedRequest ==
    IF waiter.pc = "poll" THEN TaskDetailsRequest(waiter.taskId)
    ELSE [service |-> "suno", method |-> "GET",
          endpoint |-> RecordInfoEndpoints[waiter'.result.via],
          params |-> <<<<"taskId", waiter'.result.taskId>>>>]

\* A status query is made in this step.
StatusQuery ==
    \/ waiter.pc = "poll" /\ waiter' # waiter
    \/ /\ waiter.pc \in {"idle", "done"}
       /\ waiter'.pc = "done"
       /\ waiter' # waiter
       /\ "via" \in DOMAIN waiter'.result

\* C34: every status query is answered by the music service and never by the
\* ApiCall record of an earlier query, whatever options the caller gives: a
\* query that succeeds stores the status the service has now, returns it and
\* adds 1 to requests_used, and one that fails is stored as a failure.
C34_StatusQueriesAreLive ==
    [][StatusQuery =>
         LET hash == GenerateRequestHash("suno", "GET", QueriedRequest.endpoint,
                                         QueriedRequest.params)
             row == RowIn(apiCalls', hash)
         IN  /\ row # NoRow
             /\ row.is_success =>
                  /\ Used("suno")' = Used("suno") + 1
                  /\ waiter'.pc = "done" => waiter'.result.details = row.response
                  /\ QueriedRequest.endpoint = RecordInfoEndpoints.getTaskDetails =>
                       row.response = TaskDetails(QueriedRequest.params[1][2])
             /\ ~row.is_success =>
                  /\ Used("suno")' = Used("suno")
                  /\ waiter'.result.kind = "error"]_vars

\* C34 witness: getTaskDetails was called without disableCache while the
\* record of an earlier query was fresh and said PENDING, and returned SUCCESS.
C34_Witness ==
    /\ waiter.pc = "done"
    /\ "via" \in DOMAIN waiter.result
    /\ waiter.result.via = "getTaskDetails"
    /\ ~waiter.result.options.disableCache
    /\ waiter.result.stored = <<"PENDING">>
    /\ waiter.result.songStatus = "SUCCESS"

\* How a wait ended: with the task, with a failure of the task, with the
\* allowed polls used up, or with a query that failed.
OutcomeKind(res) ==
    IF res.kind = "ok" THEN "success"
    ELSE IF TimedOut(res) THEN "timeout"
    ELSE IF \E status \in EndStatuses : FailedUpstream(res, status) THEN "upstream failure"
    ELSE "query error"

\* C35: waitForSongCompletion and waitForTaskCompletion, begun with the same
\* maxAttempts and given the same poll results, end in the same kind of
\* outcome after the same number of queries.
C35_WaitsAgree ==
    twin.pc = "done" =>
        /\ OutcomeKind(twin.song.result) = OutcomeKind(twin.task.result)
        /\ twin.songQueries = twin.taskQueries

\* C36: what adjustContent returns is what it was given with content removed
\* only: system and prompt are beginnings of the given ones, and not shorter
\* than 50 characters unless given shorter, the history is an end of the given
\* history that keeps its last entry, and a call whose arguments fit the
\* context window returns them as they are.
C36_AdjustOnlyRemoves ==
    adjust.pc = "done" =>
        LET given == adjust.given IN
        /\ adjust.kept.system = <<0, adjust.system>>
        /\ adjust.kept.prompt = <<0, adjust.prompt>>
        /\ adjust.system <= given.system
        /\ adjust.prompt <= given.prompt
        /\ adjust.system >= Min(given.system, MinLength)
        /\ adjust.prompt >= Min(given.prompt, MinLength)
        /\ adjust.history =
             SubSeq(given.history, adjust.kept.shifted + 1, Len(given.history))
        /\ given.history # <<>> =>
             /\ adjust.history # <<>>
             /\ adjust.history[Len(adjust.history)] = given.history[Len(given.history)]
        /\ EstimateTokens(given.system, given.history, given.prompt)
               <= adjust.contextWindow =>
             /\ adjust.system = given.system
             /\ adjust.history = given.history
             /\ adjust.prompt = given.prompt

\* C36 witness: a call has dropped history entries and shortened both the
\* system and the prompt it was given.
C36_Witness ==
    /\ adjust.pc = "done"
    /\ adjust.kept.shifted > 0
    /\ adjust.system < adjust.given.system
    /\ adjust.prompt < adjust.given.prompt

\* C37: a Song is 'pending' or 'completed', a completed Song has its
\* completed_at, and no step takes a completed Song back to 'pending'.
C37_SongStatusOnlyAdvances ==
    [][/\ \A song \in songs' :
            /\ song.status \in {"pending", "completed"}
            /\ song.status = "completed" => song.completed_at # NullDate
       /\ \A song \in songs :
            song.status = "completed" =>
                \E after \in songs' :
                    /\ after.id = song.id
                    /\ after.suno_task_id = song.suno_task_id
                    /\ after.status = "completed"]_vars

\* C37 witness: a callback that is not the completing one has been handled
\* for a Song that was completed before.
C37_Witness ==
    \E song \in songs :
        /\ song.status = "completed"
        /\ handler["h1"].pc = "done"
        /\ handler["h1"].result.kind = "ok"
        /\ handler["h1"].result.callbackType = "first"
        /\ handler["h1"].result.taskId = song.suno_task_id

\* C38: no step of the handling of an audio callback of another type than
\* 'complete', or of a lyrics callback, changes status or completed_at of a
\* Song; and a callback is handled beyond its entry only if it has a data
\* field, the one without being refused there with nothing stored.
C38_OtherCallbacksLeaveStatus ==
    [][\A h \in Handlers :
         /\ (/\ handler[h].pc \notin {"idle", "done"}
             /\ handler'[h] # handler[h]
             /\ \/ handler[h].kind = "lyrics"
                \/ handler[h].cb.callbackType # "complete")
            => /\ {<<song.id, song.status, song.completed_at>> : song \in songs'}
                    = {<<song.id, song.status, song.completed_at>> : song \in songs}
         /\ handler'[h].pc \notin {"idle", "done"} => handler'[h].cb.hasData
         /\ (/\ handler'[h] # handler[h]
             /\ handler'[h].result.kind = "error"
             /\ handler'[h].result.message[2] = "Invalid callback data")
            => /\ handler[h].pc \in {"idle", "done"}
               /\ songs' = songs
               /\ audioFiles' = audioFiles
               /\ attachments' = attachments]_vars

\* C38 witness: a callback of type 'first' has been handled for a Song, whose
\* audio files it stored, and the Song is pending.
C38_Witness ==
    \E song \in songs :
        /\ song.status = "pending"
        /\ handler["h1"].pc = "done"
        /\ handler["h1"].result.kind = "ok"
        /\ handler["h1"].result.callbackType = "first"
        /\ handler["h1"].result.taskId = song.suno_task_id
        /\ \E file \in audioFiles : file.song_id = song.id

-----------------------------------------------------------------------------
(* GithubService.getAllCommitsInDateRange.  The upstream repository holds  *)
(* a list of commits in the requested range and hands it out in pages of   *)
(* PageSize; every page request goes through getCommits and the gateway.   *)

MaxCommits == 3

PageSize == 2

UpstreamCommitIds == <<"c1", "c2", "c3", "c4", "c5">>

\* The commits the upstream repository may hold in the range, newest first.
UpstreamLists == {SubSeq(UpstreamCommitIds, 1, n) : n \in 0..MaxCommits}

PagerSinceOptions == {"s1", "s2"}

\* The page number as it is written in the query string.
PageNumbers == <<"1", "2", "3", "4", "5", "6">>

\* What the upstream repository answers for a page of the list.
PageOf(list, page) ==
    SubSeq(list, (page - 1) * PageSize + 1, Min(page * PageSize, Len(list)))

\* getCommits(owner, repo, {...options, page, perPage: 100})
PageRequest(since, page) ==
    [GetCommitsRequest(since) EXCEPT !.params = GetCommitsParams(since, PageNumbers[page])]

\* The request whose hash names the aggregated list; it is never sent.
AggregateRequest(since) ==
    [service |-> "github", method |-> "GET",
     endpoint |-> "/repos/o/r/all-commits-in-range",
     params |-> <<<<"since", since>>>>, cacheHours |-> DEFAULT_CACHE_HOURS,
     disableCache |-> FALSE, via |-> "direct"]

AggregateRow(rows, since) == RowIn(rows, RequestHash(AggregateRequest(since)))

AggregateUpdate(allCommits) ==
    [response |-> allCommits, status_code |-> 200, is_success |-> TRUE,
     expires_at |-> now + DEFAULT_CACHE_HOURS * HOUR]

AggregateCreate(since, allCommits) ==
    [id |-> 0, service |-> "github", endpoint |-> AggregateRequest(since).endpoint,
     method |-> "GET", params |-> AggregateRequest(since).params,
     request_hash |-> RequestHash(AggregateRequest(since)),
     response |-> allCommits, status_code |-> 200,
     expires_at |-> now + DEFAULT_CACHE_HOURS * HOUR, is_success |-> TRUE,
     error_message |-> <<>>]

PagerFailed(p, message) ==
    [p EXCEPT !.pc = "done",
              !.result = [kind |-> "error", data |-> <<>>,
                          message |-> <<"Error obteniendo todos los commits en rango: ">>
                                      \o message]]

PagerFrame ==
    /\ UNCHANGED <<now>>
    /\ UNCHANGED gatewayLocals
    /\ UNCHANGED songVars
    /\ UNCHANGED <<adjust, chunker, run, collection, twin>>
    /\ UNCHANGED afterPager

\* The lookup of the aggregated list by call p, for the range from since in
\* which the upstream repository holds upstreamList.
RangeLookup(p, since, upstreamList) ==
    IF IsCacheHit(AggregateRow(apiCalls, since))
    THEN [p EXCEPT !.pc = "done", !.since = since, !.upstream = upstreamList,
                   !.result = [kind |-> "cache",
                               data |-> AggregateRow(apiCalls, since).response,
                               message |-> <<>>]]
    ELSE [p EXCEPT !.pc = "page", !.since = since, !.upstream = upstreamList,
                   !.page = 1]

\* The entry of getAllCommitsInDateRange: the aggregated list is looked up
\* and returned when it is there, successful and not expired.
GetAllCommitsInDateRange(since, upstreamList) ==
    /\ pager.pc \in {"idle", "done"}
    /\ calls < MaxCalls
    /\ calls' = calls + 1
    /\ pager' = RangeLookup(NoPager, since, upstreamList)
    /\ UNCHANGED <<apiCalls, apiLimits, liveOk>>
    /\ PagerFrame

\* AfterPage that takes the first page for the whole list.
AfterPageStopsAtFirst(p, r, answer) ==
    IF answer.kind = "error" THEN PagerFailed(p, Wrapped(r, answer.message))
    ELSE [p EXCEPT !.pc = "store", !.allCommits = @ \o answer.data,
                   !.pages = Append(@, [page |-> p.page, commits |-> answer.data])]

\* The body of the while loop after getCommits returned or threw.
AfterPage(p, r, answer) ==
    IF answer.kind = "error" THEN PagerFailed(p, Wrapped(r, answer.message))
    ELSE IF Len(answer.data) = 0
    THEN [p EXCEPT !.pc = "store",
                   !.pages = Append(@, [page |-> p.page, commits |-> answer.data])]
    ELSE [p EXCEPT !.allCommits = @ \o answer.data, !.page = @ + 1,
                   !.pages = Append(@, [page |-> p.page, commits |-> answer.data])]

FetchPage ==
    /\ pager.pc = "page"
    /\ \E o \in {SongFailure, SongResponse(PageOf(pager.upstream, pager.page))} :
          LET r == PageRequest(pager.since, pager.page) IN
            /\ GatewayCall(r, o)
            /\ pager' = AfterPage(pager, r, GatewayAnswer(r, o))
    /\ UNCHANGED calls
    /\ PagerFrame

\* prisma.apiCall.upsert of the aggregated list, and the return.
StoreAggregate ==
    /\ pager.pc = "store"
    /\ apiCalls' = Upsert(apiCalls, RequestHash(AggregateRequest(pager.since)),
                          AggregateUpdate(pager.allCommits),
                          AggregateCreate(pager.since, pager.allCommits))
    /\ pager' = [pager EXCEPT !.pc = "done",
                              !.result = [kind |-> "live", data |-> pager.allCommits,
                                          message |-> <<>>]]
    /\ UNCHANGED <<apiLimits, liveOk, calls>>
    /\ PagerFrame

NextPager ==
    \/ \E since \in PagerSinceOptions, upstreamList \in UpstreamLists :
          GetAllCommitsInDateRange(since, upstreamList)
    \/ FetchPage
    \/ StoreAggregate
    \/ Tick

SpecPager == Init /\ [][NextPager]_vars

RECURSIVE CommitsOfPages(_)
CommitsOfPages(pages) ==
    IF Len(pages) = 0 THEN <<>>
    ELSE pages[1].commits \o CommitsOfPages(Tail(pages))

\* The pages asked for so far are 1, 2, 3, ..., none but the last is empty,
\* and allCommits is their concatenation.
PagesInOrder(p) ==
    /\ \A k \in DOMAIN p.pages :
          /\ p.pages[k].page = k
          /\ k < Len(p.pages) => Len(p.pages[k].commits) > 0
    /\ p.allCommits = CommitsOfPages(p.pages)

\* C39: getAllCommitsInDateRange asks for pages 1, 2, 3, ... in order and
\* stops at the first empty page; what it returns is the concatenation of
\* the pages; the aggregate row is written only by the step that follows
\* the empty page, with the list and an expiry of 24 hours, so a call that
\* fails on a page leaves the aggregate row as it was; and a call that finds
\* a successful aggregate row that has not expired returns its list at once,
\* asks for no page and changes neither api_calls nor requests_used.
C39_PagesThenAggregate ==
    [][ /\ PagesInOrder(pager')
        /\ pager.pc = "page" =>
              /\ AggregateRow(apiCalls', pager.since) = AggregateRow(apiCalls, pager.since)
              /\ Len(pager'.pages) > Len(pager.pages) =>
                    /\ Len(pager'.pages) = Len(pager.pages) + 1
                    /\ pager'.pc = "page" <=>
                          Len(pager'.pages[Len(pager'.pages)].commits) > 0
                    /\ pager'.pc = "store" <=>
                          Len(pager'.pages[Len(pager'.pages)].commits) = 0
        /\ pager.pc = "store" /\ pager'.pc = "done" =>
              /\ pager'.result = [kind |-> "live", data |-> CommitsOfPages(pager.pages),
                                  message |-> <<>>]
              /\ AggregateRow(apiCalls', pager.since).response = pager'.result.data
              /\ AggregateRow(apiCalls', pager.since).is_success
              /\ AggregateRow(apiCalls', pager.since).expires_at
                   = now + DEFAULT_CACHE_HOURS
        /\ calls' = calls + 1 =>
              LET row == AggregateRow(apiCalls, pager'.since) IN
                IF row # NoRow /\ row.is_success /\ now < row.expires_at
                THEN /\ pager'.pc = "done"
                     /\ pager'.result = [kind |-> "cache", data |-> row.response,
                                         message |-> <<>>]
                     /\ pager'.pages = <<>>
                     /\ apiCalls' = apiCalls
                     /\ Used("github")' = Used("github")
                ELSE pager'.pc = "page" /\ pager'.page = 1
      ]_vars

\* A call has returned the stored list of a range that took more than one
\* page to fetch.
C39_Witness ==
    /\ pager.pc = "done"
    /\ pager.result.kind = "cache"
    /\ Len(pager.result.data) > PageSize

-----------------------------------------------------------------------------
(* Step 3 of generateSongFromRepo: GithubService.formatCommitsForAnalysis, *)
(* with getCommitDetails and getCommitDiff, over the tables repositories,  *)
(* commits and analysis_tasks.  A response body is <<"details", sha>> or   *)
(* <<"diff", sha>>; a commit row holds the number of its files and its     *)
(* diff, <<>> when it has none.                                            *)

\* cacheHours: 168 of getCommitDiff
DiffCacheHours == 168

CommitEndpoint == [c1 |-> "/repos/o/r/commits/c1", c2 |-> "/repos/o/r/commits/c2"]

\* this.#cachedApiCall('GET', endpoint) of getCommitDetails
CommitDetailsRequest(sha) ==
    [service |-> "github", method |-> "GET", endpoint |-> CommitEndpoint[sha],
     params |-> <<>>, cacheHours |-> DEFAULT_CACHE_HOURS, disableCache |-> FALSE,
     via |-> "getCommitDetails"]

\* this.#cachedApiCall('GET', endpoint, {}, options) of getCommitDiff: the
\* Accept header is no part of the hash.
CommitDiffRequest(sha) ==
    [CommitDetailsRequest(sha) EXCEPT !.cacheHours = DiffCacheHours,
                                      !.via = "getCommitDiff"]

IsDetails(data) == Len(data) > 0 /\ data[1] = "details"

RepositoryRecord ==
    IF \E r \in repositories : r.full_name = "o/r"
    THEN (CHOOSE r \in repositories : r.full_name = "o/r").id
    ELSE 0

CommitIn(rows, repositoryId, sha) ==
    IF \E c \in rows : c.repository_id = repositoryId /\ c.sha = sha
    THEN CHOOSE c \in rows : c.repository_id = repositoryId /\ c.sha = sha
    ELSE NoRow

\* #storeCommitDetails: the commit is upserted and its files are replaced;
\* nothing is stored without the repository, and a body that is no commit
\* object makes it throw inside its own try.
StoreCommitDetails(rows, sha, data) ==
    IF RepositoryRecord = 0 \/ ~IsDetails(data) THEN rows
    ELSE IF CommitIn(rows, RepositoryRecord, sha) # NoRow
    THEN {IF c = CommitIn(rows, RepositoryRecord, sha) THEN [c EXCEPT !.files = 1] ELSE c :
            c \in rows}
    ELSE rows \cup {[id |-> NextId(rows), repository_id |-> RepositoryRecord,
                     sha |-> sha, files |-> 1, diff |-> <<>>]}

\* prisma.commit.updateMany of getCommitDiff
StoreCommitDiff(rows, sha, data) ==
    {IF RepositoryRecord # 0 /\ c.repository_id = RepositoryRecord /\ c.sha = sha
     THEN [c EXCEPT !.diff = data] ELSE c : c \in rows}

\* 4. existingCommit && existingCommit.files.length > 0 && existingCommit.diff
ReusableWithoutDiff(existingCommit) ==
    existingCommit # NoRow /\ existingCommit.files > 0

Reusable(existingCommit) ==
    /\ existingCommit # NoRow
    /\ existingCommit.files > 0
    /\ existingCommit.diff # <<>>

TaskIn(rows, id) ==
    IF \E t \in rows : t.id = id THEN CHOOSE t \in rows : t.id = id ELSE NoRow

UpdateTask(rows, id, status, message) ==
    {IF t.id = id THEN [t EXCEPT !.status = status, !.error = message] ELSE t : t \in rows}

FormatFrame ==
    /\ UNCHANGED <<now, calls>>
    /\ UNCHANGED gatewayLocals
    /\ UNCHANGED songVars
    /\ UNCHANGED <<adjust, chunker, collection, twin, pager>>
    /\ UNCHANGED afterFormatter

\* 1. and 2.: the repository is looked up and, when it is there, the
\* AnalysisTask is created.
FormatCommitsForAnalysis ==
    /\ run.pc = "format"
    /\ formatter.pc \in {"idle", "done"}
    /\ formatter' = [NoFormatter EXCEPT
                       !.pc = "commit", !.commits = run.commits, !.i = 1,
                       !.repositoryRecord = RepositoryRecord,
                       !.analysisTask = IF RepositoryRecord # 0
                                        THEN NextId(analysisTasks) ELSE 0]
    /\ analysisTasks' =
         IF RepositoryRecord # 0
         THEN analysisTasks \cup {[id |-> NextId(analysisTasks),
                                   repository_id |-> RepositoryRecord,
                                   status |-> "processing", error |-> <<>>]}
         ELSE analysisTasks
    /\ UNCHANGED <<apiCalls, apiLimits, liveOk, run, commitTable>>
    /\ FormatFrame

Pushed(f, entry) ==
    [f EXCEPT !.formattedCommits = Append(@, entry), !.i = @ + 1, !.details = <<>>,
              !.pc = IF f.i < Len(f.commits) THEN "commit" ELSE "finish"]

FormatterFailed(f, message) == [f EXCEPT !.pc = "failing", !.error = message]

\* 3. and 4.: the commit is looked up in the table and reused when it is
\* there with files and a diff.
FindExistingCommit ==
    /\ formatter.pc = "commit"
    /\ LET sha == formatter.commits[formatter.i]
           existingCommit == IF formatter.repositoryRecord # 0
                             THEN CommitIn(commitTable, formatter.repositoryRecord, sha)
                             ELSE NoRow
       IN  formatter' =
             IF Reusable(existingCommit)
             THEN Pushed(formatter, [sha |-> sha, diff |-> existingCommit.diff,
                                     from |-> "table"])
             ELSE [formatter EXCEPT !.pc = "details"]
    /\ UNCHANGED <<apiCalls, apiLimits, liveOk, run, commitTable, analysisTasks>>
    /\ FormatFrame

\* 5. getCommitDetails
GetCommitDetails ==
    /\ formatter.pc = "details"
    /\ LET sha == formatter.commits[formatter.i]
           r == CommitDetailsRequest(sha)
       IN  \E o \in {SongFailure, SongResponse(<<"details", sha>>)} :
             /\ GatewayCall(r, o)
             /\ IF GatewayAnswer(r, o).kind = "error"
                THEN /\ formatter' =
                          FormatterFailed(formatter,
                                          <<"Error al obtener detalles del commit: ">>
                                          \o GatewayAnswer(r, o).message)
                     /\ UNCHANGED commitTable
                ELSE /\ formatter' = [formatter EXCEPT !.pc = "diff",
                                                       !.details = GatewayAnswer(r, o).data]
                     /\ commitTable' =
                          StoreCommitDetails(commitTable, sha, GatewayAnswer(r, o).data)
    /\ UNCHANGED <<run, analysisTasks>>
    /\ FormatFrame

\* AfterDiff that throws what getCommitDiff threw.
AfterDiffRethrows(f, sha, answer) ==
    IF answer.kind = "error"
    THEN FormatterFailed(f, <<"Error al obtener diff del commit: ">> \o answer.message)
    ELSE IF ~IsDetails(f.details)
    THEN FormatterFailed(f, <<"Cannot read properties of undefined (reading 'author')">>)
    ELSE Pushed(f, [sha |-> sha, diff |-> answer.data, from |-> "github"])

\* The try around getCommitDiff, whose catch sets diff = null, and the push,
\* which reads details.commit.author.
AfterDiff(f, sha, answer) ==
    IF ~IsDetails(f.details)
    THEN FormatterFailed([f EXCEPT !.swallowed =
                              IF answer.kind = "error" THEN Append(@, sha) ELSE @],
                         <<"Cannot read properties of undefined (reading 'author')">>)
    ELSE IF answer.kind = "error"
    THEN Pushed([f EXCEPT !.swallowed = Append(@, sha)],
                [sha |-> sha, diff |-> <<>>, from |-> "github"])
    ELSE Pushed(f, [sha |-> sha, diff |-> answer.data, from |-> "github"])

GetCommitDiff ==
    /\ formatter.pc = "diff"
    /\ LET sha == formatter.commits[formatter.i]
           r == CommitDiffRequest(sha)
       IN  \E o \in {SongFailure, SongResponse(<<"diff", sha>>)} :
             /\ GatewayCall(r, o)
             /\ formatter' = AfterDiff(formatter, sha, GatewayAnswer(r, o))
             /\ commitTable' =
                  IF GatewayAnswer(r, o).kind = "error" THEN commitTable
                  ELSE StoreCommitDiff(commitTable, sha, GatewayAnswer(r, o).data)
    /\ UNCHANGED <<run, analysisTasks>>
    /\ FormatFrame

\* 6. The AnalysisTask is completed and the formatted commits are returned
\* to generateSongFromRepo, which goes on to its step 5.
FinishFormat ==
    /\ formatter.pc = "finish"
    /\ analysisTasks' =
         IF formatter.analysisTask # 0
         THEN UpdateTask(analysisTasks, formatter.analysisTask, "completed", <<>>)
         ELSE analysisTasks
    /\ formatter' = [formatter EXCEPT !.pc = "done",
                                      !.result = [kind |-> "ok", message |-> <<>>]]
    /\ run' = [Logged(run, "github:details") EXCEPT !.pc = "collection"]
    /\ UNCHANGED <<apiCalls, apiLimits, liveOk, commitTable>>
    /\ FormatFrame

\* The catch block: the AnalysisTask is failed with error.message and the
\* wrapped error is thrown to generateSongFromRepo, whose catch ends the run.
FailFormat ==
    /\ formatter.pc = "failing"
    /\ analysisTasks' =
         IF formatter.analysisTask # 0
         THEN UpdateTask(analysisTasks, formatter.analysisTask, "failed", formatter.error)
         ELSE analysisTasks
    /\ formatter' =
         [formatter EXCEPT
            !.pc = "done",
            !.result = [kind |-> "error",
                        message |-> <<"Error al formatear commits para analisis: ">>
                                    \o formatter.error]]
    /\ run' = RunFailed(Logged(run, "github:details"),
                        <<"Error al formatear commits para analisis: ">>
                        \o formatter.error)
    /\ UNCHANGED <<apiCalls, apiLimits, liveOk, commitTable>>
    /\ FormatFrame

\* The tables as earlier runs may have left them: no repository, or the
\* repository with no commit, with commit c1 complete, or with c1 lacking
\* its diff.
TablesFound ==
    { <<{}, {}>> } \cup
    { <<{[id |-> 1, full_name |-> "o/r"]}, rows>> :
        rows \in { {},
                   {[id |-> 1, repository_id |-> 1, sha |-> "c1", files |-> 1,
                     diff |-> <<"diff", "c1">>]},
                   {[id |-> 1, repository_id |-> 1, sha |-> "c1", files |-> 1,
                     diff |-> <<>>]} } }

InitFormat ==
    /\ InitGateway
    /\ dbFaulty = FALSE
    /\ InitSongRows
    /\ InitCalls
    /\ \E found \in TablesFound : repositories = found[1] /\ commitTable = found[2]

NextFormat ==
    \/ \E instrumental \in BOOLEAN : GenerateSongFromRepo(instrumental)
    \/ FetchCommits
    \/ FormatCommitsForAnalysis
    \/ FindExistingCommit
    \/ GetCommitDetails
    \/ GetCommitDiff
    \/ FinishFormat
    \/ FailFormat
    \/ Tick

SpecFormat == InitFormat /\ [][NextFormat]_vars

\* The AnalysisTask of the call of formatCommitsForAnalysis last begun.
TaskOfCall == TaskIn(analysisTasks, formatter.analysisTask)

\* The commit the call is at is in the table, under the repository the
\* call found, with at least one file and a diff.
StoredWithFilesAndDiff ==
    /\ formatter.repositoryRecord # 0
    /\ \E c \in commitTable :
          /\ c.repository_id = formatter.repositoryRecord
          /\ c.sha = formatter.commits[formatter.i]
          /\ c.files > 0
          /\ c.diff # <<>>

\* C40: formatCommitsForAnalysis creates an AnalysisTask, in 'processing',
\* exactly when the repository is in the table; once the call has ended no
\* task is in 'processing': the task of a call that returned is 'completed'
\* and the task of a call that threw is 'failed' with the message of the
\* error caught; and a commit found in the table with files and a diff is
\* pushed from the table in a step that calls no gateway and changes
\* neither api_calls nor requests_used, while any other commit goes on to
\* getCommitDetails.
C40_TaskEndsWithTheCall ==
    [][ /\ formatter.pc \in {"idle", "done"} /\ formatter'.pc = "commit" =>
              IF RepositoryRecord # 0
              THEN /\ Cardinality(analysisTasks') = Cardinality(analysisTasks) + 1
                   /\ TaskOfCall'.status = "processing"
                   /\ TaskOfCall'.repository_id = RepositoryRecord
                   /\ TaskOfCall' \notin analysisTasks
              ELSE analysisTasks' = analysisTasks /\ formatter'.analysisTask = 0
        /\ formatter'.pc \in {"idle", "done"} =>
              /\ \A t \in analysisTasks' : t.status # "processing"
              /\ formatter'.analysisTask # 0 /\ formatter'.result.kind = "ok" =>
                    TaskOfCall'.status = "completed"
              /\ formatter'.analysisTask # 0 /\ formatter'.result.kind = "error" =>
                    /\ TaskOfCall'.status = "failed"
                    /\ TaskOfCall'.error = formatter'.error
                    /\ TaskOfCall'.error # <<>>
        /\ formatter'.pc \notin {"idle", "done"} /\ formatter'.analysisTask # 0 =>
              TaskOfCall'.status = "processing"
        /\ formatter.pc = "commit" /\ formatter' # formatter =>
              IF StoredWithFilesAndDiff
              THEN /\ Len(formatter'.formattedCommits) = Len(formatter.formattedCommits) + 1
                   /\ formatter'.formattedCommits[Len(formatter'.formattedCommits)]
                        = [sha |-> formatter.commits[formatter.i],
                           diff |-> CommitIn(commitTable, formatter.repositoryRecord,
                                             formatter.commits[formatter.i]).diff,
                           from |-> "table"]
                   /\ formatter'.pc \in {"commit", "finish"}
                   /\ apiCalls' = apiCalls
                   /\ apiLimits' = apiLimits
                   /\ liveOk' = liveOk
              ELSE /\ formatter'.pc = "details"
                   /\ formatter'.formattedCommits = formatter.formattedCommits
      ]_vars

\* A call has ended with its task failed after a commit of it was taken
\* from the table.
C40_Witness ==
    /\ formatter.pc = "done"
    /\ formatter.analysisTask # 0
    /\ TaskOfCall.status = "failed"
    /\ \E k \in DOMAIN formatter.formattedCommits :
          formatter.formattedCommits[k].from = "table"

\* C32: a run whose commit fetch failed has ended with an error, and a run
\* that has gone on to its step 5 made no call of getCommitDetails or
\* getCommitDiff that failed: every failure of an external call ends the
\* run, none is swallowed.
C32_FailedCallEndsTheRun ==
    /\ run.pc \notin {"idle", "fetch"} /\ run.found = -1 =>
          run.pc = "done" /\ run.result.kind = "error"
    /\ run.pc = "collection" =>
          /\ formatter.result.kind = "ok"
          /\ formatter.swallowed = <<>>

-----------------------------------------------------------------------------
(* GithubService.getCommitsByLastActivity.  A date is a day number, a      *)
(* commit's author date is given by its sha, and the upstream repository   *)
(* answers a range request with its commits of that day or later.  The     *)
(* until option, which is the time of the call, is left out of the         *)
(* requests.                                                               *)

\* sinceDate.setDate(sinceDate.getDate() - 3)
BufferDays == 3

AuthorDay == [c1 |-> 9, c2 |-> 7, c3 |-> 3, c4 |-> 3, c5 |-> 3]

DayStrings == <<"d0", "d1", "d2", "d3", "d4", "d5", "d6", "d7", "d8", "d9">>

ToISOString(day) == DayStrings[day + 1]

\* What the upstream repository holding history has in the range from day.
CommittedSince(history, day) ==
    LET InRange(sha) == AuthorDay[sha] >= day IN SelectSeq(history, InRange)

\* prisma.commit.findFirst({where: {repository_id}, orderBy: {author_date: 'desc'}})
LastCommitOf(rows, repositoryId) ==
    IF \E c \in rows : c.repository_id = repositoryId
    THEN CHOOSE c \in rows :
           /\ c.repository_id = repositoryId
           /\ \A d \in rows :
                 d.repository_id = repositoryId => AuthorDay[d.sha] <= AuthorDay[c.sha]
    ELSE NoRow

\* this.getCommits(owner, repo, {perPage: 1, page: 1})
HeadRequest ==
    [GetCommitsRequest(Null) EXCEPT !.params = <<<<"per_page", "1">>, <<"page", "1">>>>]

\* The range getCommitsByLastActivity asks getAllCommitsInDateRange for,
\* from the author date of commit sha.
RangeBefore(p, sha) ==
    RangeLookup(p, ToISOString(AuthorDay[sha] - BufferDays),
                CommittedSince(p.history, AuthorDay[sha] - BufferDays))

\* 1. to 4.: the repository and its last commit are looked up; with a last
\* commit the range from three days before it is fetched.
GetCommitsByLastActivity(history) ==
    /\ pager.pc \in {"idle", "done"}
    /\ calls < MaxCalls
    /\ calls' = calls + 1
    /\ LET lastCommit == IF RepositoryRecord # 0
                         THEN LastCommitOf(commitTable, RepositoryRecord)
                         ELSE NoRow
           p == [NoPager EXCEPT !.via = "lastActivity", !.history = history]
       IN  pager' = IF lastCommit # NoRow
                    THEN RangeBefore([p EXCEPT !.lastCommit = lastCommit.sha],
                                     lastCommit.sha)
                    ELSE [p EXCEPT !.pc = "head"]
    /\ UNCHANGED <<apiCalls, apiLimits, liveOk>>
    /\ PagerFrame

\* 5. to 8.: after the fetch of the newest commit.
AfterHead(p, answer) ==
    IF answer.kind = "error"
    THEN [p EXCEPT !.pc = "done",
                   !.result = [kind |-> "error", data |-> <<>>,
                               message |-> Wrapped(HeadRequest, answer.message)]]
    ELSE IF Len(answer.data) = 0
    THEN [p EXCEPT !.pc = "done",
                   !.result = [kind |-> "live", data |-> <<>>, message |-> <<>>]]
    ELSE RangeBefore([p EXCEPT !.head = answer.data[1]], answer.data[1])

FetchHead ==
    /\ pager.pc = "head"
    /\ \E o \in {SongFailure,
                 SongResponse(SubSeq(pager.history, 1, Min(1, Len(pager.history))))} :
          /\ GatewayCall(HeadRequest, o)
          /\ pager' = AfterHead(pager, GatewayAnswer(HeadRequest, o))
    /\ UNCHANGED calls
    /\ PagerFrame

NextActivity ==
    \/ /\ pager.pc \in {"idle", "done"}
       /\ \E history \in UpstreamLists : GetCommitsByLastActivity(history)
    \/ FetchHead
    \/ FetchPage
    \/ StoreAggregate
    \/ Tick

SpecActivity == InitFormat /\ [][NextActivity]_vars

\* C33: a call of getCommitsByLastActivity that found no commit of the
\* repository in the table returns the newest upstream commit alone, or
\* the empty list when the upstream repository has none; a call that found
\* one returns no commit older than the last one in the table.
C33_LastActivityWindow ==
    pager.via = "lastActivity" /\ pager.pc = "done" /\ pager.result.kind # "error" =>
       IF pager.lastCommit = Null
       THEN pager.result.data = IF pager.head = Null THEN <<>> ELSE <<pager.head>>
       ELSE \A k \in DOMAIN pager.result.data :
               AuthorDay[pager.result.data[k]] >= AuthorDay[pager.lastCommit]

-----------------------------------------------------------------------------
(* The checks a call makes of its parameters before its first await:       *)
(* SunoService.generateAudio, generateLyrics, getTaskDetails and           *)
(* getLyricsTaskDetails, and KaraokeService.generateSongFromRepo.  A text  *)
(* is a name whose length CharCount gives.                                 *)

\* prompt.length > 3000
MaxCustomPrompt == 3000

\* style.length > 200
MaxStyle == 200

\* title.length > 80
MaxTitle == 80

\* prompt.length > 400
MaxSimplePrompt == 400

TextLengths ==
    [p |-> 10, p401 |-> MaxSimplePrompt + 1, p3001 |-> MaxCustomPrompt + 1,
     Rock |-> 4, s201 |-> MaxStyle + 1, t1 |-> 2, t81 |-> MaxTitle + 1]

CharCount(text) == IF text = "" THEN 0 ELSE TextLengths[text]

Accepted == <<>>

\* ValidateAudio without the test of title.length.
ValidateAudioAnyTitle(p) ==
    IF p.prompt = "" THEN <<"Missing parameter: prompt">>
    ELSE IF p.callBackUrl = "" THEN <<"Missing parameter: callBackUrl">>
    ELSE IF p.customMode
    THEN IF p.instrumental /\ (p.style = "" \/ p.title = "")
         THEN <<"Custom mode + instrumental requiere style y title">>
         ELSE IF ~p.instrumental /\ (p.style = "" \/ p.title = "")
         THEN <<"Custom mode requiere style, prompt y title (si no es instrumental)">>
         ELSE IF CharCount(p.prompt) > MaxCustomPrompt
         THEN <<"Prompt excede 3000 caracteres en customMode">>
         ELSE IF CharCount(p.style) > MaxStyle THEN <<"Style excede 200 caracteres">>
         ELSE Accepted
    ELSE IF CharCount(p.prompt) > MaxSimplePrompt
         THEN <<"Prompt excede 400 caracteres en non-custom mode">>
         ELSE Accepted

\* The checks of generateAudio, in their order: the message thrown, or Accepted.
ValidateAudio(p) ==
    IF p.prompt = "" THEN <<"Missing parameter: prompt">>
    ELSE IF p.callBackUrl = "" THEN <<"Missing parameter: callBackUrl">>
    ELSE IF p.customMode
    THEN IF p.instrumental /\ (p.style = "" \/ p.title = "")
         THEN <<"Custom mode + instrumental requiere style y title">>
         ELSE IF ~p.instrumental /\ (p.style = "" \/ p.title = "")
         THEN <<"Custom mode requiere style, prompt y title (si no es instrumental)">>
         ELSE IF CharCount(p.prompt) > MaxCustomPrompt
         THEN <<"Prompt excede 3000 caracteres en customMode">>
         ELSE IF CharCount(p.style) > MaxStyle THEN <<"Style excede 200 caracteres">>
         ELSE IF CharCount(p.title) > MaxTitle THEN <<"Title excede 80 caracteres">>
         ELSE Accepted
    ELSE IF CharCount(p.prompt) > MaxSimplePrompt
         THEN <<"Prompt excede 400 caracteres en non-custom mode">>
         ELSE Accepted

ValidateLyrics(p) ==
    IF p.prompt = "" THEN <<"Missing parameter: prompt">>
    ELSE IF p.callBackUrl = "" THEN <<"Missing parameter: callBackUrl">>
    ELSE Accepted

ValidateTaskId(p) ==
    IF p.taskId = "" THEN <<"Missing parameter: taskId">> ELSE Accepted

\* The checks of generateSongFromRepo up to the fetch of the commits.
ValidateSongRequest(p) ==
    IF p.repoUrl = "" THEN <<"Repository URL is required">>
    ELSE IF p.callBackUrl = "" THEN <<"Callback URL is required for Suno API">>
    ELSE IF \/ p.timeRange \in {"day", "week", "lastActivity"}
            \/ p.timeRange = "custom" /\ p.startDate # "" /\ p.endDate # ""
    THEN Accepted
    ELSE <<"Invalid time range or missing dates for custom range">>

Validate(op, p) ==
    IF op = "generateAudio" THEN ValidateAudio(p)
    ELSE IF op = "generateLyrics" THEN ValidateLyrics(p)
    ELSE IF op = "generateSongFromRepo" THEN ValidateSongRequest(p)
    ELSE ValidateTaskId(p)

BooleanString(b) == IF b THEN "true" ELSE "false"

\* requestData of generateAudio
AudioRequestOf(p) ==
    [service |-> "suno", method |-> "POST", endpoint |-> "/v1/generate",
     params |-> <<<<"prompt", p.prompt>>,
                  <<"customMode", BooleanString(p.customMode)>>,
                  <<"instrumental", BooleanString(p.instrumental)>>,
                  <<"model", "V3_5">>,
                  <<"callBackUrl", p.callBackUrl>>>>
                \o (IF p.customMode /\ p.style # "" THEN <<<<"style", p.style>>>> ELSE <<>>)
                \o (IF p.customMode /\ p.title # "" THEN <<<<"title", p.title>>>> ELSE <<>>),
     cacheHours |-> DEFAULT_CACHE_HOURS, disableCache |-> FALSE, via |-> "direct"]

LyricsRequestOf(p) ==
    [LyricsRequest EXCEPT
       !.params = <<<<"prompt", p.prompt>>, <<"callBackUrl", p.callBackUrl>>>>]

RequestOf(op, p) ==
    IF op = "generateAudio" THEN AudioRequestOf(p)
    ELSE IF op = "generateLyrics" THEN LyricsRequestOf(p)
    ELSE RecordInfoRequest(op, p.taskId, [disableCache |-> FALSE])

OutcomesOf(op, p) ==
    IF op = "generateAudio" THEN AudioOutcomes
    ELSE IF op = "generateLyrics" THEN LyricsOutcomes
    ELSE IF op = "getTaskDetails" THEN PollOutcomes(p.taskId)
    ELSE LyricsPollOutcomes

ValidAudio ==
    [NoParams EXCEPT !.prompt = "p", !.style = "Rock", !.title = "t1",
                     !.callBackUrl = "cb"]

\* The parameters generateAudio is called with: the valid ones in each
\* mode, and those with one of them missing or too long.
AudioParams ==
    UNION { { mode,
              [mode EXCEPT !.prompt = ""], [mode EXCEPT !.prompt = "p401"],
              [mode EXCEPT !.prompt = "p3001"], [mode EXCEPT !.style = ""],
              [mode EXCEPT !.style = "s201"], [mode EXCEPT !.title = ""],
              [mode EXCEPT !.title = "t81"], [mode EXCEPT !.callBackUrl = ""] } :
            mode \in { [ValidAudio EXCEPT !.customMode = c, !.instrumental = i] :
                         c \in BOOLEAN, i \in BOOLEAN } }

LyricsParams ==
    { [NoParams EXCEPT !.prompt = t, !.callBackUrl = cb] :
        t \in {"", "p"}, cb \in {"", "cb"} }

TaskIdParams == { [NoParams EXCEPT !.taskId = t] : t \in {"", "T1"} }

ValidSong ==
    [NoParams EXCEPT !.repoUrl = "https://github.com/o/r", !.callBackUrl = "cb",
                     !.timeRange = "week"]

\* The options generateSongFromRepo is called with: each time range with
\* what it needs, and those with something missing or a range unknown.
SongParams ==
    { ValidSong,
      [ValidSong EXCEPT !.timeRange = "day"],
      [ValidSong EXCEPT !.timeRange = "lastActivity"],
      [ValidSong EXCEPT !.timeRange = "custom", !.startDate = "d1", !.endDate = "d2"],
      [ValidSong EXCEPT !.timeRange = "custom", !.startDate = "d1"],
      [ValidSong EXCEPT !.timeRange = "custom", !.endDate = "d2"],
      [ValidSong EXCEPT !.timeRange = "month", !.startDate = "d1", !.endDate = "d2"],
      [ValidSong EXCEPT !.repoUrl = ""],
      [ValidSong EXCEPT !.callBackUrl = ""] }

Rejected(op, p) ==
    [op |-> op, params |-> p, kind |-> "rejected", message |-> Validate(op, p)]

\* The number of calls made with their parameters checked.
MaxChecks == 2

\* A call of a method of SunoService: its checks, then its cached call.
CallSuno(op, p) ==
    /\ calls < MaxChecks
    /\ calls' = calls + 1
    /\ IF Validate(op, p) # Accepted
       THEN /\ checked' = Rejected(op, p)
            /\ UNCHANGED <<apiCalls, apiLimits, liveOk, upstream>>
       ELSE \E o \in OutcomesOf(op, p) :
              /\ GatewayCall(RequestOf(op, p), o)
              /\ upstream' =
                   IF /\ op = "generateAudio"
                      /\ ~GatewayHit(RequestOf(op, p)) /\ o.ok /\ o.data # <<>>
                   THEN [upstream EXCEPT ![o.data[2]] = "PENDING"]
                   ELSE upstream
              /\ checked' = [op |-> op, params |-> p,
                             kind |-> GatewayAnswer(RequestOf(op, p), o).kind,
                             message |-> GatewayAnswer(RequestOf(op, p), o).message]
    /\ UNCHANGED <<now, songs, audioFiles, attachments, repositories, handler, submit,
                   waiter>>
    /\ UNCHANGED gatewayLocals
    /\ UNCHANGED <<adjust, chunker, run, collection, twin, pager>>
    /\ UNCHANGED <<formatter, analysisTasks, commitTable>>

\* The entry of generateSongFromRepo with the options given: its checks,
\* and the parsing of the url, up to the fetch of the commits.
GenerateSongFromRepoWith(p) ==
    /\ run.pc \in {"idle", "done"}
    /\ calls < MaxChecks
    /\ calls' = calls + 1
    /\ IF Validate("generateSongFromRepo", p) # Accepted
       THEN /\ checked' = Rejected("generateSongFromRepo", p)
            /\ run' = RunFailed(NoRun, Validate("generateSongFromRepo", p))
       ELSE /\ checked' = [op |-> "generateSongFromRepo", params |-> p,
                           kind |-> "accepted", message |-> <<>>]
            /\ run' = [NoRun EXCEPT !.pc = "fetch", !.instrumental = p.instrumental]
    /\ UNCHANGED <<apiCalls, apiLimits, liveOk, now>>
    /\ UNCHANGED gatewayLocals
    /\ UNCHANGED songVars
    /\ UNCHANGED <<adjust, chunker, collection, twin, pager>>
    /\ UNCHANGED <<formatter, analysisTasks, commitTable>>

NextChecked ==
    \/ \E p \in AudioParams : CallSuno("generateAudio", p)
    \/ \E p \in LyricsParams : CallSuno("generateLyrics", p)
    \/ \E p \in TaskIdParams : CallSuno("getTaskDetails", p)
    \/ \E p \in TaskIdParams : CallSuno("getLyricsTaskDetails", p)
    \/ \E p \in SongParams : GenerateSongFromRepoWith(p)

SpecChecked == Init /\ [][NextChecked]_vars

TooLong(p) ==
    \/ CharCount(p.prompt) > (IF p.customMode THEN MaxCustomPrompt ELSE MaxSimplePrompt)
    \/ p.customMode /\ CharCount(p.style) > MaxStyle
    \/ p.customMode /\ CharCount(p.title) > MaxTitle

\* What the call was given fails validation: a required parameter is
\* missing, the time range is none of the four or is custom without both
\* dates, or a text of the music request is over its limit.
FailsValidation(op, p) ==
    IF op = "generateSongFromRepo"
    THEN \/ p.repoUrl = ""
         \/ p.callBackUrl = ""
         \/ p.timeRange \notin {"day", "week", "custom", "lastActivity"}
         \/ p.timeRange = "custom" /\ (p.startDate = "" \/ p.endDate = "")
    ELSE IF op \in {"getTaskDetails", "getLyricsTaskDetails"} THEN p.taskId = ""
    ELSE \/ p.prompt = ""
         \/ p.callBackUrl = ""
         \/ op = "generateAudio" /\ TooLong(p)

\* C31: a call whose parameters fail validation is rejected with a message
\* in the step it is made, and that step, like every step that rejects a
\* call, leaves api_calls, the limits with requests_used, the count of live
\* requests and the tasks of the music service as they were; a rejected
\* generateSongFromRepo has ended with the error and no call made.
C31_InvalidRequestTouchesNothing ==
    [][ calls' = calls + 1 =>
          /\ FailsValidation(checked'.op, checked'.params) => checked'.kind = "rejected"
          /\ checked'.kind = "rejected" =>
                /\ checked'.message # <<>>
                /\ apiCalls' = apiCalls
                /\ apiLimits' = apiLimits
                /\ liveOk' = liveOk
                /\ upstream' = upstream
                /\ IF checked'.op = "generateSongFromRepo"
                   THEN /\ run'.pc = "done"
                        /\ run'.result.kind = "error"
                        /\ run'.log = <<>>
                   ELSE run' = run
      ]_vars

\* A music request with a title over its limit has been rejected after
\* other calls had been recorded.
C31_Witness ==
    /\ checked.op = "generateAudio"
    /\ checked.kind = "rejected"
    /\ CharCount(checked.params.title) > MaxTitle
    /\ checked.params.prompt # "" /\ checked.params.style # ""
    /\ apiCalls # {}
    /\ Used("suno") > 0

====
